---- MODULE Spec2Model ----
(***************************************************************************)
(* The card relay of jungle-ai: the card normalizer (src/utils.py), the    *)
(* one-shot /poll_cards handler and the /stream_cards generator            *)
(* (src/app.py).  The generator is modelled from one suspension point to   *)
(* the next: every action resumes it where it is suspended and runs it to  *)
(* its next yield, to the next loop head, or to its end.                   *)
(*                                                                         *)
(* Time is counted in ticks of half a second, the shortest delay the code  *)
(* uses (time.sleep(0.5)); Sec(n) is n seconds.  The clock advances while  *)
(* a fetch is in flight and while the generator sleeps; it does not        *)
(* advance while the generator is suspended on a yield.                    *)
(*                                                                         *)
(* Beside them stand the /generate handler with the upload adapter         *)
(* (src/app.py, src/upload_file.py), run step by step, and the pure        *)
(* functions of src/utils.py and src/app.py, applied to drawn arguments.   *)
(* Each has its own next-state relation over the same variables; the       *)
(* variables a relation does not use keep their initial values.            *)
(***************************************************************************)
EXTENDS Integers, Sequences, FiniteSets, TLC

VARIABLES
    pc,              \* where the request / the generator stands (yNNN: suspended on the yield of line NNN)
    USE_GEVENT_SLEEP,\* module constant of app.py, fixed at import
    now,             \* the clock, time.time(), in ticks
    start_time,      \* stream_cards: start_time
    seen,            \* event_stream: seen
    idle,            \* event_stream: idle
    last_heartbeat,  \* event_stream: last_heartbeat
    out,             \* what the last step handed to the client (an event, or a response)
    emitted,         \* history: the card ids delivered in data events of this session
    quiet,           \* history: consecutive poll cycles that produced no data event
    lastFetch,       \* history: how the latest poll cycle went
    lastSignal,      \* history: clock value of the latest event written to the client
    doneSent,        \* history: number of done events completed (reason line yielded)
    polledIdless,    \* history: the latest snapshot fetched held a record without an id
    parked,          \* the process's other stream session while this one runs: its variables, as a record
    generation,      \* the call of generate: its form, its locals and its history, as a record
    files,           \* the files in the upload folder
    application,     \* a function call: the function, its arguments, and what it returned
    telegram         \* the call of send_to_telegram: its request, its locals and its history, as a record

\* The variables of one stream session.
session == <<pc, now, start_time, seen, idle, last_heartbeat, out, emitted,
             quiet, lastFetch, lastSignal, doneSent, polledIdless>>
\* What a step of a stream session leaves alone.
elsewhere == <<parked, generation, files, application, telegram>>

vars == <<USE_GEVENT_SLEEP, session, elsewhere>>

-----------------------------------------------------------------------------
(* Bounds and constants.                                                   *)

\* config.STREAM_MAX_IDLE is 30; the model runs the same code with a smaller budget.
STREAM_MAX_IDLE == 3
\* MAX_STREAM_DURATION is 300 (seconds); the model runs the same code with a shorter one.
MAX_STREAM_DURATION == 20
\* The seen set is cut back to 1000 ids; the model cuts it back to fewer.
SeenLimit == 2

HEARTBEAT_INTERVAL == 15
STREAM_REQUEST_TIMEOUT == 10
STREAM_POLL_INTERVAL == 2
\* str(e)[:100]
ERROR_MESSAGE_LIMIT == 100
\* len(text_content) < 50
MIN_TEXT_LENGTH == 50

Sec(n) == n + n
Min(a, b) == IF a <= b THEN a ELSE b

-----------------------------------------------------------------------------
(* Python values.  A value is a record with its type t and, for scalars,   *)
(* its str() rendering v.                                                   *)

None == [t |-> "NoneType", v |-> ""]
Str(s) == [t |-> "str", v |-> s]
Bool(b) == [t |-> "bool", v |-> IF b THEN "True" ELSE "False"]
Num(s) == [t |-> "int", v |-> s]
List(items) == [t |-> "list", items |-> items]

\* Python truth value of a scalar.
Truthy(x) ==
    CASE x.t = "NoneType" -> FALSE
      [] x.t = "str" -> x.v # ""
      [] x.t = "bool" -> x.v = "True"
      [] x.t = "int" -> x.v # "0"
      [] x.t = "list" -> x.items # <<>>
      [] OTHER -> TRUE

\* Python truth value of what normalize_card returns (None or a non-empty dict).
TruthyCard(x) == x.t # "NoneType"

\* a or b
PyOr(a, b) == IF Truthy(a) THEN a ELSE b

\* s[:n]
Prefix(s, n) == SubSeq(s, 1, Min(Len(s), n))

-----------------------------------------------------------------------------
(* Python strings, one character at a time.                                *)

\* s[i-1], s[i-1:], s[:-1]
CharAt(s, i) == SubSeq(s, i, i)
From(s, i) == SubSeq(s, i, Len(s))
ButLast(s) == SubSeq(s, 1, Len(s) - 1)

Whitespace == {" ", "\t", "\n", "\r"}
Digits == {"0", "1", "2", "3", "4", "5", "6", "7", "8", "9"}
LowerOf ==
    [A |-> "a", B |-> "b", C |-> "c", D |-> "d", E |-> "e", F |-> "f", G |-> "g",
     H |-> "h", I |-> "i", J |-> "j", K |-> "k", L |-> "l", M |-> "m", N |-> "n",
     O |-> "o", P |-> "p", Q |-> "q", R |-> "r", S |-> "s", T |-> "t", U |-> "u",
     V |-> "v", W |-> "w", X |-> "x", Y |-> "y", Z |-> "z"]
Letters == DOMAIN LowerOf \cup {LowerOf[c] : c \in DOMAIN LowerOf}

RECURSIVE Chars(_)
\* A text of n characters.
Chars(n) ==
    IF n = 0 THEN ""
    ELSE IF n % 2 = 0 THEN LET half == Chars(n \div 2) IN half \o half
    ELSE "x" \o Chars(n - 1)

RECURSIVE lstrip(_, _)
\* s.lstrip(chars)
lstrip(s, chars) ==
    IF s # "" /\ CharAt(s, 1) \in chars THEN lstrip(From(s, 2), chars) ELSE s

RECURSIVE rstrip(_, _)
\* s.rstrip(chars)
rstrip(s, chars) ==
    IF s # "" /\ CharAt(s, Len(s)) \in chars THEN rstrip(ButLast(s), chars) ELSE s

\* s.strip()
strip(s) == rstrip(lstrip(s, Whitespace), Whitespace)

RECURSIVE lower(_)
\* s.lower()
lower(s) ==
    IF s = "" THEN ""
    ELSE IF Len(s) = 1 THEN (IF s \in DOMAIN LowerOf THEN LowerOf[s] ELSE s)
    ELSE lower(Prefix(s, Len(s) \div 2)) \o lower(From(s, Len(s) \div 2 + 1))

\* s.endswith(suffix), sub in s
endswith(s, suffix) ==
    Len(s) >= Len(suffix) /\ From(s, Len(s) - Len(suffix) + 1) = suffix
contains(s, sub) ==
    \E i \in 1..(Len(s) - Len(sub) + 1) : SubSeq(s, i, i + Len(sub) - 1) = sub

\* s.isdigit(), for ASCII text
isdigit(s) == s # "" /\ \A i \in 1..Len(s) : CharAt(s, i) \in Digits

\* The digit a character stands for.
DigitValue(c) == CHOOSE n \in 0..9 : ToString(n) = c

RECURSIVE int(_)
\* int(s), for a text of digits with an optional sign
int(s) ==
    IF s = "" THEN 0
    ELSE IF CharAt(s, 1) = "-" THEN 0 - int(From(s, 2))
    ELSE 10 * int(ButLast(s)) + DigitValue(CharAt(s, Len(s)))

RECURSIVE after_last(_, _)
\* s.rsplit(sep, 1)[1], for a text that holds sep
after_last(s, sep) ==
    IF s = "" \/ CharAt(s, Len(s)) = sep THEN ""
    ELSE after_last(ButLast(s), sep) \o CharAt(s, Len(s))

\* The texts of the deck's records; what the two operators below come to on
\* them is worked out once.
DeckTexts ==
    {"", "A", "B", "True", "False", " false ", "True/False Question",
     "Multiple Choice Question"}
strip_lower_of == [s \in DeckTexts |-> lower(strip(s))]
mentions_true_false_of ==
    [s \in {strip_lower_of[x] : x \in DeckTexts} |->
        contains(s, "true") \/ contains(s, "false")]

\* s.strip().lower()
strip_lower(s) ==
    IF s \in DeckTexts THEN strip_lower_of[s] ELSE lower(strip(s))

\* 'true' in s or 'false' in s
mentions_true_false(s) ==
    IF s \in DOMAIN mentions_true_false_of
    THEN mentions_true_false_of[s]
    ELSE contains(s, "true") \/ contains(s, "false")

\* str(e) of the AttributeError raised by x.name when x has no such attribute.
NoAttribute(x, name) ==
    "'" \o x.t \o "' object has no attribute '" \o name \o "'"

\* All orders random.shuffle can leave a list in.
Shuffles(s) ==
    {[i \in 1..Len(s) |-> s[p[i]]] : p \in Permutations(1..Len(s))}

-----------------------------------------------------------------------------
(* src/utils.py                                                            *)

\* normalize_answer comparing the string as it is (no strip, no lower).
normalize_answer_AsWritten(answer) ==
    IF answer.t = "bool"
    THEN (IF answer.v = "True" THEN "True" ELSE "False")
    ELSE IF answer.t = "str" /\ answer.v \in {"true", "false"}
    THEN (IF answer.v = "true" THEN "True" ELSE "False")
    ELSE IF Truthy(answer) THEN answer.v ELSE ""

normalize_answer(answer) ==
    IF answer.t = "bool"
    THEN (IF answer.v = "True" THEN "True" ELSE "False")
    ELSE IF answer.t = "str" /\ strip_lower(answer.v) \in {"true", "false"}
    THEN (IF strip_lower(answer.v) = "true" THEN "True" ELSE "False")
    ELSE IF Truthy(answer) THEN answer.v ELSE ""

\* The set of lists build_options can return (one per outcome of the shuffle).
build_options(answer, distractors, card_type) ==
    LET shuffled ==
            IF distractors # <<>>
            THEN Shuffles(IF Truthy(answer)
                          THEN Append(distractors, normalize_answer(answer))
                          ELSE distractors)
            ELSE {<<>>}
        card_type_lower == strip_lower(PyOr(card_type, Str("")).v)
        TrueFalse(options) ==
            IF options = <<>> /\ mentions_true_false(card_type_lower)
            THEN <<"True", "False">>
            ELSE IF options = <<>> /\ answer.t = "str"
                    /\ strip_lower(answer.v) \in {"true", "false"}
            THEN <<"True", "False">>
            ELSE options
    IN  {TrueFalse(options) : options \in shuffled}

get_explanation(card_data, answer) ==
    PyOr(card_data.explanation,
      PyOr(card_data.explanation_text,
        PyOr(card_data.detailed_answer,
          PyOr(card_data.solution, Str(normalize_answer(answer))))))

\* card_data.get('card_id') or card_data.get('id')
card_id_of(card_data) == PyOr(card_data.card_id, card_data.id)

\* normalize_card without its id check (lines 93-94 dropped).
normalize_card_KeepsIdless(card_data) ==
    {[t |-> "dict",
      card_id |-> card_id_of(card_data),
      question |-> card_data.question,
      case_details |-> card_data.case_scenario_details,
      card_type |-> card_data.card_type,
      answer |-> Str(normalize_answer(card_data.answer)),
      explanation |-> get_explanation(card_data, card_data.answer),
      options |-> options,
      raw |-> card_data]
     : options \in build_options(card_data.answer,
                                 card_data.distractor_answers_for_multiple_choice_question,
                                 card_data.card_type)}

\* The set of values normalize_card can return for a dict (None when it has no id).
normalize_card(card_data) ==
    LET card_id == card_id_of(card_data) IN
    IF ~Truthy(card_id)
    THEN {None}
    ELSE {[t |-> "dict",
           card_id |-> card_id,
           question |-> card_data.question,
           case_details |-> card_data.case_scenario_details,
           card_type |-> card_data.card_type,
           answer |-> Str(normalize_answer(card_data.answer)),
           explanation |-> get_explanation(card_data, card_data.answer),
           options |-> options,
           raw |-> card_data]
          : options \in build_options(card_data.answer,
                                      card_data.distractor_answers_for_multiple_choice_question,
                                      card_data.card_type)}

\* What normalize_cards can do, one outcome per outcome of the shuffles: return the
\* list normalized, or raise on a record that is no dict (card_data.get).
RECURSIVE normalize_cards_from(_, _)
normalize_cards_from(cards_data, normalized) ==
    IF cards_data = <<>>
    THEN {[raised |-> FALSE, normalized |-> normalized]}
    ELSE IF Head(cards_data).t # "dict"
    THEN {[raised |-> TRUE, normalized |-> normalized]}
    ELSE UNION {normalize_cards_from(Tail(cards_data),
                                     IF TruthyCard(normalized_card)
                                     THEN Append(normalized, normalized_card)
                                     ELSE normalized)
                : normalized_card \in normalize_card(Head(cards_data))}

normalize_cards(cards_data) == normalize_cards_from(cards_data, <<>>)

-----------------------------------------------------------------------------
(* The backend: what a POST to the cards endpoint can answer.              *)

RawCard(card_id, id, question, card_type, answer, distractors) ==
    [t |-> "dict",
     card_id |-> card_id,
     id |-> id,
     question |-> question,
     case_scenario_details |-> None,
     card_type |-> card_type,
     answer |-> answer,
     distractor_answers_for_multiple_choice_question |-> distractors,
     explanation |-> None,
     explanation_text |-> None,
     detailed_answer |-> None,
     solution |-> None]

\* The records a deck is drawn from, in the order the backend lists them:
\* two records share the id c1 and differ in their other fields, one has only
\* falsy ids, one carries its id under 'id', and one is no JSON object (null).
DeckRecords ==
    << RawCard(Str("c1"), None, Str("q1"), Str("Multiple Choice Question"),
               Str("A"), <<"B">>),
       RawCard(Str(""), None, Str("q0"), None, Str("A"), <<>>),
       RawCard(None, Str("c2"), Str("q2"), Str("True/False Question"),
               Bool(TRUE), <<>>),
       RawCard(Str("c1"), None, Str("q1 (edited)"), None, Str(" false "), <<>>),
       None,
       RawCard(Str("c3"), Str("c1"), Str("q3"), None, Num("42"), <<>>) >>

RECURSIVE Pick(_, _, _)
\* The records of s at the positions in I, in order.
Pick(s, I, i) ==
    IF i > Len(s) THEN <<>>
    ELSE IF i \in I THEN <<s[i]>> \o Pick(s, I, i + 1)
    ELSE Pick(s, I, i + 1)

\* The snapshots of the deck: any selection of the records, in the backend's order.
Snapshots == {Pick(DeckRecords, I, 1) : I \in SUBSET (1..Len(DeckRecords))}

\* What session.post(...) followed by raise_for_status() and json() can come to:
\* an exception of one of these kinds, or the decoded body of a 2xx answer.
Reply(kind, data) == [kind |-> kind, data |-> data]
Body(all_cards_for_deck, all_cards_for_deck_and_subdecks) ==
    [t |-> "dict",
     all_cards_for_deck |-> all_cards_for_deck,
     all_cards_for_deck_and_subdecks |-> all_cards_for_deck_and_subdecks]

FailureKinds == {"timeout", "connection_error", "http_error", "bad_json", "not_an_object"}

\* The deck comes under 'all_cards_for_deck', or (here for the short decks)
\* under 'all_cards_for_deck_and_subdecks', or under neither key.
BackendReplies ==
    {Reply(k, None) : k \in FailureKinds}
        \cup {Reply("ok", Body(List(c), None)) : c \in Snapshots}
        \cup {Reply("ok", Body(None, List(c))) : c \in {x \in Snapshots : Len(x) = 1}}
        \cup {Reply("ok", Body(None, None))}

\* fetch_cards_from_api: (False, []) on a timeout, on any other RequestException
\* (transport error, non-2xx status) and on any other exception (a body that is
\* no JSON, or no JSON object); (True, cards) otherwise.
fetch_cards_from_api(reply) ==
    IF reply.kind = "timeout"
    THEN [success |-> FALSE, cards |-> <<>>]
    ELSE IF reply.kind \in {"connection_error", "http_error"}
    THEN [success |-> FALSE, cards |-> <<>>]
    ELSE IF reply.kind # "ok"
    THEN [success |-> FALSE, cards |-> <<>>]
    ELSE [success |-> TRUE,
          cards |-> PyOr(reply.data.all_cards_for_deck,
                         PyOr(reply.data.all_cards_for_deck_and_subdecks,
                              List(<<>>))).items]

\* How long one call can take: it answers at once, or only when the timeout expires.
FetchDurations == {0, Sec(STREAM_REQUEST_TIMEOUT)}

-----------------------------------------------------------------------------
(* What the client is handed.                                              *)

Event(type, cards, reason) == [type |-> type, cards |-> cards, reason |-> reason]
NoEvent == Event("none", <<>>, "")
DataEvent(cards) == Event("data", cards, "")        \* data: {"cards": [...]}
\* str(e)[:100]
ErrorMessage(e) == Prefix(e, ERROR_MESSAGE_LIMIT)
\* data: {"error": str(e)[:100]}
ErrorEvent(e) ==
    [type |-> "error", cards |-> <<>>, reason |-> "", error |-> ErrorMessage(e)]
Heartbeat == Event("heartbeat", <<>>, "")           \* : heartbeat
Keepalive == Event("keepalive", <<>>, "")           \* : keepalive
DoneLine == Event("event_done", <<>>, "")           \* event: done
DoneData(reason) == Event("done", <<>>, reason)     \* data: {"reason": ...}, which completes the done event
PollResponse(cards) == Event("poll_response", cards, "")   \* 200 {"cards": [...]}
PollFailure == Event("poll_failure", <<>>, "")      \* 500, fetch failed or the handler raised

\* The yields the generator can be suspended on.
YieldPoints == {"y609", "y610", "y622", "y623", "y629", "y638", "y662",
                "y671", "y701", "y709", "y713", "y714", "y723"}

\* A list of raw records holds a dict with no id under 'card_id' nor 'id'.
HasIdless(cards) ==
    \E i \in 1..Len(cards) :
        cards[i].t = "dict" /\ ~Truthy(card_id_of(cards[i]))

\* The card ids of the cards in a list.
CardIds(cards) == {cards[i].card_id : i \in 1..Len(cards)}

-----------------------------------------------------------------------------
(* src/app.py, stream_cards.event_stream: the pieces of the loop.          *)

\* min(config.STREAM_POLL_INTERVAL, 2.0)
sleep_time == Min(Sec(STREAM_POLL_INTERVAL), Sec(2))
\* min(sleep_time, 0.5)
sync_sleep_time == Min(sleep_time, Sec(1) \div 2)

\* The duration check measured from the last heartbeat instead of the start.
DurationExceeded_SinceHeartbeat(t) == t - last_heartbeat > Sec(MAX_STREAM_DURATION)

\* time.time() - start_time > MAX_STREAM_DURATION
DurationExceeded(t) == t - start_time > Sec(MAX_STREAM_DURATION)

\* The idle check with > for >=.
IdleExhausted_Late(i) == i > STREAM_MAX_IDLE

\* idle >= config.STREAM_MAX_IDLE
IdleExhausted(i) == i >= STREAM_MAX_IDLE

\* current_time - last_heartbeat >= HEARTBEAT_INTERVAL
HeartbeatDue(t) == t - last_heartbeat >= Sec(HEARTBEAT_INTERVAL)

\* The test of the loop without the look into seen.
IsNew_SeenOrNot(normalized_card, seen_) == TruthyCard(normalized_card)

\* normalized_card and normalized_card['card_id'] not in seen
IsNew(normalized_card, seen_) ==
    TruthyCard(normalized_card) /\ normalized_card.card_id \notin seen_

\* normalized_card.pop('raw', None)
PopRaw(normalized_card) ==
    [k \in DOMAIN normalized_card \ {"raw"} |-> normalized_card[k]]

\* The for loop over cards: every way it can end, with seen and normalized as
\* it leaves them; raised when a record makes normalize_card raise (card_data.get
\* on a record that is no dict), with the text of the exception.
RECURSIVE ScanCards(_, _, _)
ScanCards(cards, seen_, normalized) ==
    IF cards = <<>>
    THEN {[raised |-> FALSE, seen |-> seen_, normalized |-> normalized, error |-> ""]}
    ELSE IF Head(cards).t # "dict"
    THEN {[raised |-> TRUE, seen |-> seen_, normalized |-> normalized,
           error |-> NoAttribute(Head(cards), "get")]}
    ELSE UNION {IF IsNew(normalized_card, seen_)
                THEN ScanCards(Tail(cards),
                               seen_ \cup {normalized_card.card_id},
                               Append(normalized, PopRaw(normalized_card)))
                ELSE ScanCards(Tail(cards), seen_, normalized)
                : normalized_card \in normalize_card(Head(cards))}

\* if len(seen) > 1000: seen = set(list(seen)[-1000:]).  A set lists its elements
\* in no particular order: any 1000 of them can be the ones kept.
KeepLast(seen_) ==
    IF Cardinality(seen_) > SeenLimit
    THEN {kept \in SUBSET seen_ : Cardinality(kept) = SeenLimit}
    ELSE {seen_}

-----------------------------------------------------------------------------
(* Steps.  Yield and Goto say where a step leaves the generator.           *)

Yield(event, at, t) ==
    /\ pc' = at
    /\ out' = event
    /\ now' = t
    /\ lastSignal' = t
    /\ doneSent' = IF event.type = "done" THEN doneSent + 1 ELSE doneSent

Goto(at, t) ==
    /\ pc' = at
    /\ out' = NoEvent
    /\ now' = t
    /\ UNCHANGED <<lastSignal, doneSent>>

\* Lines 632-640 (and 688-695): the sleep that ends a failed cycle, then continue.
SleepAndContinue(t) ==
    IF USE_GEVENT_SLEEP
    THEN Goto("top", t + sleep_time)
    ELSE Yield(Keepalive, "y638", t)

\* Lines 712-724: the idle check and the sleep that end every other cycle.
EndOfCycle(idle_, t) ==
    IF IdleExhausted(idle_)
    THEN Yield(DoneLine, "y713", t)
    ELSE IF USE_GEVENT_SLEEP
    THEN Goto("top", t + sleep_time)
    ELSE Yield(Keepalive, "y723", t)

\* The variables of a session, as a record.
Frame(pc_, now_, start_time_, seen_, idle_, last_heartbeat_, out_, emitted_, quiet_, lastFetch_, lastSignal_, doneSent_, polledIdless_) ==
    [pc |-> pc_, now |-> now_, start_time |-> start_time_, seen |-> seen_, idle |-> idle_,
     last_heartbeat |-> last_heartbeat_, out |-> out_, emitted |-> emitted_,
     quiet |-> quiet_, lastFetch |-> lastFetch_, lastSignal |-> lastSignal_,
     doneSent |-> doneSent_, polledIdless |-> polledIdless_]

\* A request that has arrived and is not served yet.
NewSession == Frame("request", 0, 0, {}, 0, 0, NoEvent, {}, 0, "none", 0, 0, FALSE)

\* No form, no call, no request: what the variables of the other handlers
\* hold while a stream is served.
NoForm == [input_method |-> "none"]
NoCall == [f |-> "none"]
NoRequest == [bot |-> "none"]

\* generate has been called with a form and has not run yet: pdf_path and the
\* locals of process_file_upload are unset, nothing is created, nothing sent.
Called(form) ==
    [form |-> form,
     pdf_path |-> None,
     file_path |-> None,
     page_range |-> <<None, None>>,
     total_pages |-> None,
     extracted_text |-> None,
     upload |-> None,
     json_data |-> None,
     created |-> {},
     calls |-> <<>>]

\* send_to_telegram has been called with a request and has not run yet: no
\* card counted, no error recorded, nothing handed to the bot.
Received(request) ==
    [request |-> request,
     cards |-> <<>>,
     sent_count |-> 0,
     skipped_count |-> 0,
     errors |-> <<>>,
     submitted |-> <<>>,
     outcomes |-> <<>>]

\* A function has been called and has not returned.
Applied(call) == [call |-> call, returned |-> FALSE, ret |-> None]

\* The process has started: a request has arrived, nothing has run.
Idle ==
    /\ now = 0
    /\ pc = "request"
    /\ start_time = 0
    /\ seen = {}
    /\ idle = 0
    /\ last_heartbeat = 0
    /\ out = NoEvent
    /\ emitted = {}
    /\ quiet = 0
    /\ lastFetch = "none"
    /\ lastSignal = 0
    /\ doneSent = 0
    /\ polledIdless = FALSE
    /\ files = {}

Init ==
    /\ USE_GEVENT_SLEEP \in BOOLEAN
    /\ Idle
    /\ telegram = Received(NoRequest)
    /\ parked = NewSession
    /\ generation = Called(NoForm)
    /\ application = Applied(NoCall)

\* GET /poll_cards/<deck_id>: one fetch, normalize_cards, one response.
PollCards ==
    /\ pc = "request"
    /\ \E reply \in BackendReplies :
          LET r == fetch_cards_from_api(reply) IN
          /\ polledIdless' = HasIdless(r.cards)
          /\ IF ~r.success
             THEN out' = PollFailure
             ELSE \E res \in normalize_cards(r.cards) :
                     out' = IF res.raised THEN PollFailure
                            ELSE PollResponse(res.normalized)
    /\ pc' = "responded"
    /\ UNCHANGED <<elsewhere, USE_GEVENT_SLEEP, now, start_time, seen, idle, last_heartbeat,
                   emitted, quiet, lastFetch, lastSignal, doneSent>>

\* GET /stream_cards/<deck_id>: lines 588-602, up to the loop head.
OpenStream ==
    /\ pc = "request"
    /\ start_time' = now
    /\ seen' = {}
    /\ idle' = 0
    /\ last_heartbeat' = now
    /\ Goto("top", now)
    /\ UNCHANGED <<elsewhere, USE_GEVENT_SLEEP, emitted, quiet, lastFetch, polledIdless>>

\* The loop head with a bare break when the duration is exceeded (no done event).
LoopTop_SilentStop ==
    /\ pc = "top"
    /\ IF DurationExceeded(now)
       THEN seen' = {} /\ Goto("finished", now)
       ELSE Goto("fetch", now) /\ UNCHANGED seen
    /\ UNCHANGED <<elsewhere, USE_GEVENT_SLEEP, start_time, idle, last_heartbeat,
                   emitted, quiet, lastFetch, polledIdless>>

\* Lines 605-613: the duration check at the head of the loop.
LoopTop ==
    /\ pc = "top"
    /\ IF DurationExceeded(now)
       THEN Yield(DoneLine, "y609", now)
       ELSE Goto("fetch", now)
    /\ UNCHANGED <<elsewhere, USE_GEVENT_SLEEP, start_time, seen, idle, last_heartbeat,
                   emitted, quiet, lastFetch, polledIdless>>

\* The failed fetch without idle += 1.
FetchFailed_NotCounted(t) ==
    /\ quiet' = quiet + 1
    /\ lastFetch' = "failed"
    /\ IF IdleExhausted(idle)
       THEN Yield(DoneLine, "y622", t)
       ELSE IF HeartbeatDue(t)
       THEN Yield(Heartbeat, "y629", t)
       ELSE SleepAndContinue(t)
    /\ UNCHANGED <<idle, seen, emitted, last_heartbeat>>

\* Lines 619-640: the fetch failed.
FetchFailed(t) ==
    /\ idle' = idle + 1
    /\ quiet' = quiet + 1
    /\ lastFetch' = "failed"
    /\ IF IdleExhausted(idle + 1)
       THEN Yield(DoneLine, "y622", t)
       ELSE IF HeartbeatDue(t)
       THEN Yield(Heartbeat, "y629", t)
       ELSE SleepAndContinue(t)
    /\ UNCHANGED <<seen, emitted, last_heartbeat>>

\* Lines 697-701: a record made the iteration raise; seen keeps what the loop added.
FetchRaised(res, t) ==
    /\ seen' = res.seen
    /\ quiet' = quiet + 1
    /\ lastFetch' = "raised"
    /\ Yield(ErrorEvent(res.error), "y701", t)
    /\ UNCHANGED <<idle, emitted, last_heartbeat>>

\* Lines 654-672: the loop over cards ended; cut seen back, then emit or count.
FetchProcessed(res, t) ==
    /\ seen' \in KeepLast(res.seen)
    /\ IF res.normalized # <<>>
       THEN /\ Yield(DataEvent(res.normalized), "y662", t)
            /\ emitted' = emitted \cup CardIds(res.normalized)
            /\ quiet' = 0
            /\ lastFetch' = "data"
            /\ UNCHANGED idle
       ELSE /\ idle' = idle + 1
            /\ quiet' = quiet + 1
            /\ lastFetch' = "nothing_new"
            /\ UNCHANGED emitted
            /\ IF HeartbeatDue(t)
               THEN Yield(Heartbeat, "y671", t)
               ELSE EndOfCycle(idle + 1, t)
    /\ UNCHANGED last_heartbeat

\* Lines 615-672: one poll of the backend, to the next yield or loop head.
\* iteration (line 613) only feeds the log and is left out.  The handler of
\* requests.exceptions.Timeout (lines 674-695) is never entered, since
\* fetch_cards_from_api lets no exception out; json.dumps (line 661) does not
\* fail on what json() decoded.
FetchFrom(replies, durations) ==
    /\ pc = "fetch"
    /\ \E d \in durations, reply \in replies :
          LET r == fetch_cards_from_api(reply) IN
          /\ polledIdless' = HasIdless(r.cards)
          /\ IF ~r.success
             THEN FetchFailed(now + d)
             ELSE \E res \in ScanCards(r.cards, seen, <<>>) :
                     IF res.raised
                     THEN FetchRaised(res, now + d)
                     ELSE FetchProcessed(res, now + d)
    /\ UNCHANGED <<elsewhere, USE_GEVENT_SLEEP, start_time>>

Fetch == FetchFrom(BackendReplies, FetchDurations)

\* Resumed after 'event: done' (lines 609, 622, 713): yield the reason.
ResumeDoneLine ==
    /\ pc \in {"y609", "y622", "y713"}
    /\ Yield(DoneData(IF pc = "y609" THEN "max_duration" ELSE "max_idle"),
             CASE pc = "y609" -> "y610" [] pc = "y622" -> "y623" [] pc = "y713" -> "y714",
             now)
    /\ UNCHANGED <<elsewhere, USE_GEVENT_SLEEP, start_time, seen, idle, last_heartbeat,
                   emitted, quiet, lastFetch, polledIdless>>

\* The reason line followed by continue instead of break.
ResumeDoneData_NoBreak ==
    /\ pc \in {"y610", "y623", "y714"}
    /\ Goto("top", now)
    /\ UNCHANGED <<elsewhere, USE_GEVENT_SLEEP, start_time, seen, idle, last_heartbeat,
                   emitted, quiet, lastFetch, polledIdless>>

\* Resumed after the reason (lines 610, 623, 714): break, finally: seen.clear().
ResumeDoneData ==
    /\ pc \in {"y610", "y623", "y714"}
    /\ seen' = {}
    /\ Goto("finished", now)
    /\ UNCHANGED <<elsewhere, USE_GEVENT_SLEEP, start_time, idle, last_heartbeat,
                   emitted, quiet, lastFetch, polledIdless>>

\* Resumed after the heartbeat of a failed cycle (lines 629-640).
Resume629 ==
    /\ pc = "y629"
    /\ last_heartbeat' = now
    /\ SleepAndContinue(now)
    /\ UNCHANGED <<elsewhere, USE_GEVENT_SLEEP, start_time, seen, idle, emitted, quiet, lastFetch, polledIdless>>

\* Resumed after a keepalive (lines 638-640, 723-724): time.sleep, next iteration.
ResumeKeepalive ==
    /\ pc \in {"y638", "y723"}
    /\ Goto("top", now + sync_sleep_time)
    /\ UNCHANGED <<elsewhere, USE_GEVENT_SLEEP, start_time, seen, idle, last_heartbeat,
                   emitted, quiet, lastFetch, polledIdless>>

\* Resumed after a data event (lines 662-664, then 712-724).
Resume662 ==
    /\ pc = "y662"
    /\ idle' = 0
    /\ last_heartbeat' = now
    /\ EndOfCycle(0, now)
    /\ UNCHANGED <<elsewhere, USE_GEVENT_SLEEP, start_time, seen, emitted, quiet, lastFetch, polledIdless>>

\* Resumed after a heartbeat (lines 671-672 and 709-710, then 712-724).
ResumeHeartbeat ==
    /\ pc \in {"y671", "y709"}
    /\ last_heartbeat' = now
    /\ EndOfCycle(idle, now)
    /\ UNCHANGED <<elsewhere, USE_GEVENT_SLEEP, start_time, seen, idle, emitted, quiet, lastFetch, polledIdless>>

\* The error handler without idle += 1 (line 704 dropped).
Resume701_NotCounted ==
    /\ pc = "y701"
    /\ IF HeartbeatDue(now)
       THEN Yield(Heartbeat, "y709", now)
       ELSE EndOfCycle(idle, now)
    /\ UNCHANGED <<elsewhere, USE_GEVENT_SLEEP, start_time, seen, idle, last_heartbeat,
                   emitted, quiet, lastFetch, polledIdless>>

\* Resumed after the error event (lines 701-710, then 712-724).
Resume701 ==
    /\ pc = "y701"
    /\ idle' = idle + 1
    /\ IF HeartbeatDue(now)
       THEN Yield(Heartbeat, "y709", now)
       ELSE EndOfCycle(idle + 1, now)
    /\ UNCHANGED <<elsewhere, USE_GEVENT_SLEEP, start_time, seen, last_heartbeat,
                   emitted, quiet, lastFetch, polledIdless>>

\* The disconnect without the finally clause.
Disconnect_NoCleanup ==
    /\ pc \in YieldPoints
    /\ Goto("closed", now)
    /\ UNCHANGED <<elsewhere, USE_GEVENT_SLEEP, start_time, seen, idle, last_heartbeat,
                   emitted, quiet, lastFetch, polledIdless>>

\* The client went away: GeneratorExit at the yield the generator is suspended
\* on (lines 726-733).  No inner handler catches it (they catch Exception).
Disconnect ==
    /\ pc \in YieldPoints
    /\ seen' = {}
    /\ Goto("closed", now)
    /\ UNCHANGED <<elsewhere, USE_GEVENT_SLEEP, start_time, idle, last_heartbeat,
                   emitted, quiet, lastFetch, polledIdless>>

Next ==
    \/ PollCards
    \/ OpenStream
    \/ LoopTop
    \/ Fetch
    \/ ResumeDoneLine
    \/ ResumeDoneData
    \/ Resume629
    \/ ResumeKeepalive
    \/ Resume662
    \/ ResumeHeartbeat
    \/ Resume701
    \/ Disconnect

Spec == Init /\ [][Next]_vars

-----------------------------------------------------------------------------
(* Two stream sessions in one process.  The variables of a session belong  *)
(* to the session that runs; the other session is parked, and a context    *)
(* switch (between greenlets, or between the threads of a sync worker)     *)
(* exchanges the two.  now is the clock as the running session reads it:   *)
(* the sessions fetch and sleep side by side, so the time one of them      *)
(* spends in a fetch or asleep is no delay for the other.                  *)

\* The context switch with seen as a set of the module, which both sessions use.
Switch_SharedSeen ==
    /\ parked' = Frame(pc, now, start_time, seen, idle, last_heartbeat, out, emitted,
                       quiet, lastFetch, lastSignal, doneSent, polledIdless)
    /\ pc' = parked.pc
    /\ now' = parked.now
    /\ start_time' = parked.start_time
    /\ seen' = seen
    /\ idle' = parked.idle
    /\ last_heartbeat' = parked.last_heartbeat
    /\ out' = parked.out
    /\ emitted' = parked.emitted
    /\ quiet' = parked.quiet
    /\ lastFetch' = parked.lastFetch
    /\ lastSignal' = parked.lastSignal
    /\ doneSent' = parked.doneSent
    /\ polledIdless' = parked.polledIdless
    /\ UNCHANGED <<USE_GEVENT_SLEEP, generation, files, application, telegram>>

\* The other session runs: start_time (line 592) is a local of its call of
\* stream_cards; seen, idle and last_heartbeat (lines 598-601) are locals of
\* its generator.
Switch ==
    /\ parked' = Frame(pc, now, start_time, seen, idle, last_heartbeat, out, emitted,
                       quiet, lastFetch, lastSignal, doneSent, polledIdless)
    /\ pc' = parked.pc
    /\ now' = parked.now
    /\ start_time' = parked.start_time
    /\ seen' = parked.seen
    /\ idle' = parked.idle
    /\ last_heartbeat' = parked.last_heartbeat
    /\ out' = parked.out
    /\ emitted' = parked.emitted
    /\ quiet' = parked.quiet
    /\ lastFetch' = parked.lastFetch
    /\ lastSignal' = parked.lastSignal
    /\ doneSent' = parked.doneSent
    /\ polledIdless' = parked.polledIdless
    /\ UNCHANGED <<USE_GEVENT_SLEEP, generation, files, application, telegram>>

\* What the backend answers while two sessions are followed: a timeout, or the
\* deck with its first card.
RepliesToTwo ==
    {Reply("timeout", None),
     Reply("ok", Body(List(<<DeckRecords[1]>>), None))}

FetchOfTwo == FetchFrom(RepliesToTwo, FetchDurations)

NextOfTwo ==
    \/ OpenStream
    \/ LoopTop
    \/ FetchOfTwo
    \/ ResumeDoneLine
    \/ ResumeDoneData
    \/ Resume629
    \/ ResumeKeepalive
    \/ Resume662
    \/ ResumeHeartbeat
    \/ Disconnect
    \/ Switch

TwoSessions == Init /\ [][NextOfTwo]_vars

\* The scheduling the server gives the generator: as long as a step is possible
\* (the server asks for the next chunk, or the client goes away) one is taken.
LiveSpec == Init /\ [][Next]_vars /\ WF_vars(Next)

-----------------------------------------------------------------------------
(* A stream session on a deck that no longer changes: every poll succeeds  *)
(* and returns the same snapshot, three cards with three ids (one more     *)
(* than the seen set keeps, so that no cycle comes without a data event    *)
(* and no heartbeat falls due).                                            *)

FetchSteady ==
    FetchFrom({Reply("ok", Body(List(Pick(DeckRecords, {1, 3, 6}, 1)), None))},
              FetchDurations)

NextSteady ==
    \/ OpenStream
    \/ LoopTop
    \/ FetchSteady
    \/ ResumeDoneLine
    \/ ResumeDoneData
    \/ ResumeKeepalive
    \/ Resume662
    \/ Disconnect

SteadySpec == Init /\ [][NextSteady]_vars

-----------------------------------------------------------------------------
(* src/config.py, src/utils.py and src/app.py: the functions generate uses. *)

UPLOAD_FOLDER == "uploads"
ALLOWED_EXTENSIONS == {"pdf", "doc", "docx"}

\* config.QUESTION_TYPE_MAPPING
QUESTION_TYPE_MAPPING ==
    [t \in {"Multiple Choice Question", "Understanding Question",
            "Case Scenario Multiple Choice Question", "True/False Question"} |-> t]

\* build_question_types with the requested difficulty for every type.
build_question_types_AllAsRequested(selected_types, difficulty) ==
    LET RECURSIVE Build(_, _)
        Build(types, question_types) ==
            IF types = <<>> THEN question_types
            ELSE IF Head(types) \notin DOMAIN QUESTION_TYPE_MAPPING
            THEN Build(Tail(types), question_types)
            ELSE Build(Tail(types),
                       Append(question_types,
                              [cardType |-> QUESTION_TYPE_MAPPING[Head(types)],
                               difficultyGroup |-> difficulty]))
    IN  Build(selected_types, <<>>)

build_question_types(selected_types, difficulty) ==
    LET RECURSIVE Build(_, _)
        Build(types, question_types) ==
            IF types = <<>> THEN question_types
            ELSE IF Head(types) \notin DOMAIN QUESTION_TYPE_MAPPING
            THEN Build(Tail(types), question_types)
            ELSE IF Head(types) = "True/False Question"
            THEN Build(Tail(types),
                       Append(question_types,
                              [cardType |-> QUESTION_TYPE_MAPPING[Head(types)],
                               difficultyGroup |-> "Basic"]))
            ELSE Build(Tail(types),
                       Append(question_types,
                              [cardType |-> QUESTION_TYPE_MAPPING[Head(types)],
                               difficultyGroup |-> difficulty]))
    IN  Build(selected_types, <<>>)

\* allowed_file(filename)
allowed_file(filename) ==
    contains(filename, ".") /\ lower(after_last(filename, ".")) \in ALLOWED_EXTENSIONS

\* get_content_type(filename)
get_content_type(filename) ==
    IF endswith(lower(filename), ".pdf") THEN "PDF"
    ELSE IF endswith(lower(filename), ".doc") \/ endswith(lower(filename), ".docx")
    THEN "DOCX"
    ELSE "PDF"

RECURSIVE join_words(_)
\* "_".join(s.split()), for a text with no whitespace at its ends
join_words(s) ==
    IF s = "" THEN ""
    ELSE IF CharAt(s, 1) \in Whitespace
    THEN "_" \o join_words(lstrip(s, Whitespace))
    ELSE CharAt(s, 1) \o join_words(From(s, 2))

RECURSIVE keep_chars(_, _)
\* s without the characters outside chars
keep_chars(s, chars) ==
    IF s = "" THEN ""
    ELSE (IF CharAt(s, 1) \in chars THEN CharAt(s, 1) ELSE "")
            \o keep_chars(From(s, 2), chars)

RECURSIVE replace_char(_, _, _)
\* s.replace(old, new), for a character old
replace_char(s, old, new) ==
    IF s = "" THEN ""
    ELSE (IF CharAt(s, 1) = old THEN new ELSE CharAt(s, 1))
            \o replace_char(From(s, 2), old, new)

\* werkzeug's secure_filename, for ASCII names: the path separator becomes a
\* blank, runs of blanks become one underscore, every character but letters,
\* digits, '_', '.', '-' goes, and dots and underscores at the ends go.
secure_filename(filename) ==
    LET joined == join_words(strip(replace_char(filename, "/", " ")))
        kept == keep_chars(joined, Letters \cup Digits \cup {"_", ".", "-"})
    IN  rstrip(lstrip(kept, {".", "_"}), {".", "_"})

\* get_secure_file_path(filename, upload_folder)
get_secure_file_path(filename, upload_folder) ==
    upload_folder \o "/" \o secure_filename(filename)

\* The number a Python int stands for.
IntOf(x) == int(x.v)
\* The Python int for a number.
PyInt(n) == Num(ToString(n))

\* validate_page_range without the comparison of start_page with end_page.
validate_page_range_AnyOrder(start_page, end_page, total_pages) ==
    IF start_page # None /\ IntOf(start_page) < 1
    THEN [valid |-> FALSE, error |-> Str("Start page must be at least 1")]
    ELSE IF end_page # None /\ IntOf(end_page) < 1
    THEN [valid |-> FALSE, error |-> Str("End page must be at least 1")]
    ELSE IF start_page # None /\ IntOf(start_page) > IntOf(total_pages)
    THEN [valid |-> FALSE,
          error |-> Str("Start page (" \o start_page.v \o ") exceeds total pages ("
                        \o total_pages.v \o ")")]
    ELSE IF end_page # None /\ IntOf(end_page) > IntOf(total_pages)
    THEN [valid |-> FALSE,
          error |-> Str("End page (" \o end_page.v \o ") exceeds total pages ("
                        \o total_pages.v \o ")")]
    ELSE [valid |-> TRUE, error |-> None]

\* validate_page_range(start_page, end_page, total_pages): (is_valid, error_message)
validate_page_range(start_page, end_page, total_pages) ==
    IF start_page # None /\ IntOf(start_page) < 1
    THEN [valid |-> FALSE, error |-> Str("Start page must be at least 1")]
    ELSE IF end_page # None /\ IntOf(end_page) < 1
    THEN [valid |-> FALSE, error |-> Str("End page must be at least 1")]
    ELSE IF start_page # None /\ end_page # None /\ IntOf(start_page) > IntOf(end_page)
    THEN [valid |-> FALSE,
          error |-> Str("Start page must be less than or equal to end page")]
    ELSE IF start_page # None /\ IntOf(start_page) > IntOf(total_pages)
    THEN [valid |-> FALSE,
          error |-> Str("Start page (" \o start_page.v \o ") exceeds total pages ("
                        \o total_pages.v \o ")")]
    ELSE IF end_page # None /\ IntOf(end_page) > IntOf(total_pages)
    THEN [valid |-> FALSE,
          error |-> Str("End page (" \o end_page.v \o ") exceeds total pages ("
                        \o total_pages.v \o ")")]
    ELSE [valid |-> TRUE, error |-> None]

\* int(field) if field and field.isdigit() else None, for a stripped form field
parse_page(field) ==
    IF field # "" /\ isdigit(field) THEN PyInt(int(field)) ELSE None

\* _parse_page_range(): (start_page, end_page)
parse_page_range(form) ==
    <<parse_page(strip(form.page_start)), parse_page(strip(form.page_end))>>

\* build_generation_payload with the pages as the form gave them (no defaults).
build_generation_payload_PagesAsGiven(extracted_text, question_types, s3_url, s3_object_key, content_type, filename, total_pages_, start_page, end_page) ==
    [t |-> "dict",
     pdf_pages_text_array |-> <<extracted_text>>,
     page_text_sentences_array |-> <<extracted_text>>,
     page_url |-> PyOr(s3_url, Str("")),
     content_medium_type |-> content_type,
     uploaded_file_s3_object_key |-> PyOr(s3_object_key, Str("")),
     question_types_user_selected_to_generate |-> question_types,
     pdfStartingPage |-> start_page,
     pdfEndingPage |-> end_page,
     pdf_file_name |-> filename,
     pdf_num_pages |-> total_pages_]

\* build_generation_payload: the fields that depend on the file and on the
\* question types (the others are literals, fresh uuids, and user_id and amount
\* as the form gave them).
build_generation_payload(extracted_text, question_types, s3_url, s3_object_key, content_type, filename, total_pages_, start_page, end_page) ==
    [t |-> "dict",
     pdf_pages_text_array |-> <<extracted_text>>,
     page_text_sentences_array |-> <<extracted_text>>,
     page_url |-> PyOr(s3_url, Str("")),
     content_medium_type |-> content_type,
     uploaded_file_s3_object_key |-> PyOr(s3_object_key, Str("")),
     question_types_user_selected_to_generate |-> question_types,
     pdfStartingPage |-> PyOr(start_page, PyInt(1)),
     pdfEndingPage |-> PyOr(end_page, total_pages_),
     pdf_file_name |-> filename,
     pdf_num_pages |-> total_pages_]

-----------------------------------------------------------------------------
(* src/app.py, generate, with process_file_upload and the upload adapter   *)
(* (src/upload_file.py), from one effect to the next: a step ends when a   *)
(* file has been written, a document read or a request answered.           *)

\* render_template('index.html', error=...)
ErrorPage(error) ==
    [type |-> "error_page", cards |-> <<>>, reason |-> "", error |-> error]
\* redirect(url_for('view_deck', deck_id=...))
Redirect(deck_id) ==
    [type |-> "redirect", cards |-> <<>>, reason |-> "", deck_id |-> deck_id]
\* An exception no handler of generate catches: the framework answers 500.
ServerError == Event("server_error", <<>>, "")

\* The form: request.form with the defaults of lines 442-446 and 128-129, and
\* request.files (file is the uploaded file's name, None when there is none).
Form(input_method, text_content, question_type, file, page_start, page_end) ==
    [input_method |-> input_method,
     text_content |-> text_content,
     question_type |-> question_type,
     difficulty |-> "Advanced",
     file |-> file,
     page_start |-> page_start,
     page_end |-> page_end]

\* The names mkstemp(suffix='.pdf', dir=UPLOAD_FOLDER) can give a file.
TempPaths == {UPLOAD_FOLDER \o "/tmp1a2b3c4d.pdf", UPLOAD_FOLDER \o "/tmp5e6f7g8h.pdf"}

\* The page counts a document can have (0: get_pdf_page_count could not read it).
PageCounts == {0, 1, 10}

\* The variables generate leaves alone.
streaming == <<USE_GEVENT_SLEEP, now, start_time, seen, idle, last_heartbeat,
               emitted, quiet, lastFetch, lastSignal, doneSent, polledIdless, parked>>

\* One more effect in the history.
Did(g, what) == [g EXCEPT !.calls = Append(@, what)]
\* One more file written by this call.
Wrote(g, path) == [g EXCEPT !.created = @ \cup {path}]

\* The step ends inside generate, at the next effect.
Step(g, files_, at) ==
    /\ generation' = g
    /\ files' = files_
    /\ pc' = at
    /\ out' = NoEvent
    /\ UNCHANGED <<streaming, application, telegram>>

\* generate returns a response, outside every with and try block.
Respond(g, files_, response) ==
    /\ generation' = g
    /\ files' = files_
    /\ pc' = "responded"
    /\ out' = response
    /\ UNCHANGED <<streaming, application, telegram>>

\* safe_remove_file(file_path) under 'if file_path:' (lines 122-123, 482-483)
Removed(files_, path) == IF Truthy(path) THEN files_ \ {path.v} ELSE files_

\* The way out of process_file_upload and of the text branch with no cleanup
\* of file_path (the with block of lines 269-355 dropped).
Unwound_NoFileCleanup(g, files_) == Removed(files_, g.pdf_path)

\* The way out of process_file_upload and of the text branch: the with block
\* (lines 119-123) removes file_path once it is set, the finally clause of
\* lines 480-483 removes pdf_path once it is set.
Unwound(g, files_) == Removed(Removed(files_, g.file_path), g.pdf_path)

\* process_file_upload returns (False, {'error': ...}), or raises in the text
\* branch; generate answers with the error (lines 479, 493).
Fail(g, files_, error) == Respond(g, Unwound(g, files_), ErrorPage(error))

\* The file object of the request: the uploaded file, or the wrapper of lines
\* 464-474 around the generated PDF.
FileName(g) ==
    IF g.form.input_method = "text" THEN "text_input.pdf" ELSE g.form.file.v

\* generate with the length gate on the text as submitted (untrimmed).
Generate_CountsSubmitted ==
    /\ pc = "request"
    /\ generation.form # NoForm
    /\ LET form == generation.form
           text_content == strip(form.text_content)
       IN  IF form.input_method = "text"
           THEN IF text_content = ""
                THEN Respond(generation, files, ErrorPage("Please enter some text content"))
                ELSE IF Len(form.text_content) < MIN_TEXT_LENGTH
                THEN Respond(generation, files,
                             ErrorPage("Please enter at least 50 characters of text"))
                ELSE Step(generation, files, "create_pdf")
           ELSE IF form.file = None
                THEN Respond(generation, files,
                             ErrorPage("Please select a valid PDF or Word file"))
                ELSE Step(generation, files, "process_file_upload")

\* Lines 442-456 and 486-489: the gates on the form.
Generate ==
    /\ pc = "request"
    /\ generation.form # NoForm
    /\ LET form == generation.form
           text_content == strip(form.text_content)
       IN  IF form.input_method = "text"
           THEN IF text_content = ""
                THEN Respond(generation, files, ErrorPage("Please enter some text content"))
                ELSE IF Len(text_content) < MIN_TEXT_LENGTH
                THEN Respond(generation, files,
                             ErrorPage("Please enter at least 50 characters of text"))
                ELSE Step(generation, files, "create_pdf")
           ELSE IF form.file = None
                THEN Respond(generation, files,
                             ErrorPage("Please select a valid PDF or Word file"))
                ELSE Step(generation, files, "process_file_upload")

\* Lines 458-461 with _create_pdf_from_text (148-243): the import of reportlab
\* fails before a file exists; or mkstemp creates the file and building the
\* document raises (pdf_path is still None then); or the path is returned.
CreatePdfFromText ==
    /\ pc = "create_pdf"
    /\ \E temp_path \in TempPaths \ files :
          \/ Fail(generation, files,
                  "Error processing text: reportlab is required for text-to-PDF conversion. Please install it: pip install reportlab")
          \/ Fail(Wrote(generation, temp_path), files \cup {temp_path},
                  "Error processing text: Parse error: saw </para> instead of expected </b>")
          \/ Step(Wrote([generation EXCEPT !.pdf_path = Str(temp_path)], temp_path),
                  files \cup {temp_path}, "process_file_upload")

\* Lines 259-267: the name of the file and its place in the upload folder.
ProcessFileUpload ==
    /\ pc = "process_file_upload"
    /\ LET filename == FileName(generation) IN
       IF filename = "" \/ ~allowed_file(filename)
       THEN Fail(generation, files, "Please select a valid PDF or Word file")
       ELSE Step([generation EXCEPT
                     !.file_path = Str(get_secure_file_path(filename, UPLOAD_FOLDER))],
                 files, "save")

\* Lines 269-280: file.save(file_path); it can fail with the file half written.
SaveFile ==
    /\ pc = "save"
    /\ LET saved == Wrote(generation, generation.file_path.v)
           on_disk == files \cup {generation.file_path.v}
       IN  \/ Step(saved, on_disk, "page_count")
           \/ Fail(saved, on_disk,
                   "Error processing file: [Errno 28] No space left on device")

\* Lines 283-293: the page range of the form and the page count of a PDF
\* (0 when the file cannot be read).
CountPages ==
    /\ pc = "page_count"
    /\ LET g == [generation EXCEPT !.page_range = parse_page_range(generation.form)] IN
       IF endswith(lower(g.file_path.v), ".pdf")
       THEN \E n \in PageCounts :
               IF n = 0
               THEN Fail([g EXCEPT !.total_pages = PyInt(n)], files,
                         "Could not determine PDF page count")
               ELSE /\ g.file_path.v \in files
                    /\ Step([g EXCEPT !.total_pages = PyInt(n)], files, "validate")
       ELSE Step(g, files, "validate")

\* Lines 296-304: a page range is checked against the page count; that of a
\* Word file is estimated by extracting its text, which can raise.
ValidatePageRange ==
    /\ pc = "validate"
    /\ LET start_page == generation.page_range[1]
           end_page == generation.page_range[2]
           Validated(g) ==
               LET result == validate_page_range(start_page, end_page, g.total_pages) IN
               IF ~result.valid
               THEN Fail(g, files, result.error.v)
               ELSE Step(g, files, "extract")
       IN  IF start_page # None \/ end_page # None
           THEN IF generation.total_pages = None
                THEN \/ Fail(Did(generation, "extract"), files,
                             "Error extracting text: Failed to extract Word text: Package not found. The file might be corrupted or in an unsupported format.")
                     \/ \E n \in PageCounts \ {0} :
                           /\ generation.file_path.v \in files
                           /\ Validated([Did(generation, "extract") EXCEPT
                                            !.total_pages = PyInt(n)])
                ELSE Validated(generation)
           ELSE Step(generation, files, "extract")

\* Lines 307-319 with _extract_text_from_file (135-145): a PDF gives its text
\* or raises; a Word file gives its text, which can be empty, or raises (as
\* both do when the file is not there); any other name raises ValueError.
ExtractText ==
    /\ pc = "extract"
    /\ LET g == Did(generation, "extract")
           path == lower(generation.file_path.v)
           Extracted(total) ==
               /\ generation.file_path.v \in files
               /\ Step([g EXCEPT !.extracted_text = Str("Cells divide."),
                                 !.total_pages = total],
                       files, "upload_url")
       IN  IF endswith(path, ".pdf")
           THEN \/ Extracted(g.total_pages)
                \/ Fail(g, files,
                        "Error extracting text: Failed to extract PDF text: EOF marker not found. The file might be corrupted or in an unsupported format.")
                \/ Fail(g, files,
                        "No text could be extracted from the PDF (processed 1 page). The PDF might be image-based (scanned) or encrypted. Please ensure the PDF contains selectable text.")
           ELSE IF endswith(path, ".doc") \/ endswith(path, ".docx")
           THEN \/ \E n \in PageCounts \ {0} :
                      (g.total_pages \in {None, PyInt(n)}) /\ Extracted(PyInt(n))
                \/ Fail(g, files,
                        "No text could be extracted from the file. Please check the file or page range.")
                \/ Fail(g, files,
                        "Error extracting text: Failed to extract Word text: Package not found. The file might be corrupted or in an unsupported format.")
           ELSE Fail(g, files, "Unsupported file type")

\* What the upload URL endpoint can answer with a 2xx status and a JSON object:
\* the presigned POST, which can lack its key, its fields or its url.
UploadData(url, fields) == [t |-> "dict", url |-> url, fields |-> fields]
PresignedPosts ==
    {UploadData(Str("https://bucket.s3.amazonaws.com/"), Str("uploads/u1/notes.pdf")),
     UploadData(Str("https://bucket.s3.amazonaws.com/"), Str("(no key)")),
     UploadData(Str("https://bucket.s3.amazonaws.com/"), None),
     UploadData(Str(""), Str("uploads/u1/notes.pdf"))}

\* d.get(key)
Get(d, key) == IF key \in DOMAIN d THEN d[key] ELSE None

\* The dict upload_pdf_to_s3 returns when it failed.
UploadFailed(error) == [t |-> "dict", success |-> FALSE, error |-> error]

\* Lines 321-325, upload_pdf_to_s3 (180-214) with get_upload_url (44-91): the
\* file must exist; then the request for the presigned POST, which can time
\* out, fail, or be answered without 'url' or 'fields'.
GetUploadUrl ==
    /\ pc = "upload_url"
    /\ LET Refused(g, error) ==
               Fail([g EXCEPT !.upload = UploadFailed(error)], files,
                    "Failed to upload file to S3: " \o error)
       IN  IF generation.file_path.v \notin files
           THEN Refused(generation, "File not found: " \o generation.file_path.v)
           ELSE LET g == Did(generation, "upload_url") IN
                \/ \E upload_data \in PresignedPosts :
                      Step([g EXCEPT !.upload = [t |-> "dict", success |-> TRUE,
                                                 upload_data |-> upload_data]],
                           files, "s3_post")
                \/ \E error \in {"Request timeout while getting upload URL",
                                 "Failed to get upload URL: 503 Server Error",
                                 "Invalid response format from API"} :
                      Refused(g, error)

\* process_file_upload that takes every answer of the upload for a success.
Uploaded_IgnoresFailure(g, upload_result) ==
    LET done == [g EXCEPT !.upload = upload_result] IN
    Step(done, Unwound(done, files), "question_types")

\* Lines 325-340 and 490-493: the upload has returned; a failure ends generate,
\* a success leaves process_file_upload (and the text branch) with its result.
Uploaded(g, upload_result) ==
    LET done == [g EXCEPT !.upload = upload_result] IN
    IF ~upload_result.success
    THEN Fail(done, files, "Failed to upload file to S3: " \o upload_result.error)
    ELSE Step(done, Unwound(done, files), "question_types")

\* Line 217 with upload_to_s3 (94-177): no POST without fields or url; the POST
\* can time out or fail, and opening the file can fail.
UploadToS3 ==
    /\ pc = "s3_post"
    /\ LET upload_data == generation.upload.upload_data
           key == IF upload_data.fields.v = "(no key)" THEN None ELSE upload_data.fields
       IN  IF ~Truthy(upload_data.fields)
           THEN Uploaded(generation, UploadFailed("No fields received in upload response"))
           ELSE IF ~Truthy(upload_data.url)
           THEN Uploaded(generation, UploadFailed("No URL received in upload response"))
           ELSE \/ Uploaded(Did(generation, "s3_post"),
                            [t |-> "dict", success |-> TRUE,
                             s3_object_key |-> key,
                             s3_url |-> IF Truthy(key)
                                        THEN Str(rstrip(upload_data.url.v, {"/"}) \o "/"
                                                 \o key.v)
                                        ELSE None])
                \/ \E error \in {"Upload timeout. File may be too large.",
                                 "Failed to upload file to S3: 403 Client Error"} :
                      Uploaded(Did(generation, "s3_post"), UploadFailed(error))
                \/ Uploaded(generation,
                            UploadFailed("Unexpected error during upload: [Errno 2] No such file or directory"))

\* Lines 495-522: the text, the question types, the payload.
CheckQuestionTypes ==
    /\ pc = "question_types"
    /\ LET form == generation.form
           question_types == build_question_types(form.question_type, form.difficulty)
       IN  IF ~Truthy(generation.extracted_text)
           THEN Respond(generation, files,
                        ErrorPage("Please upload a file and ensure text can be extracted"))
           ELSE IF form.question_type = <<>>
           THEN Respond(generation, files,
                        ErrorPage("Please select at least one question type"))
           ELSE IF question_types = <<>>
           THEN Respond(generation, files, ErrorPage("Invalid question type selected"))
           ELSE Step([generation EXCEPT !.json_data =
                         build_generation_payload(
                             generation.extracted_text, question_types,
                             Get(generation.upload, "s3_url"),
                             Get(generation.upload, "s3_object_key"),
                             get_content_type(FileName(generation)),
                             FileName(generation), generation.total_pages,
                             generation.page_range[1], generation.page_range[2])],
                     files, "send")

\* Lines 526-550: the generation request and what comes back.
SendGeneration ==
    /\ pc = "send"
    /\ LET g == Did(generation, "generate") IN
       \/ Respond(g, files, Redirect("deck1"))
       \/ \E error \in {"No deck id returned from generation API",
                        "Generation request failed: 502 Server Error",
                        "Invalid response from generation API"} :
             Respond(g, files, ErrorPage(error))
       \/ Respond(g, files, ServerError)

GenerateNext ==
    \/ Generate
    \/ CreatePdfFromText
    \/ ProcessFileUpload
    \/ SaveFile
    \/ CountPages
    \/ ValidatePageRange
    \/ ExtractText
    \/ GetUploadUrl
    \/ UploadToS3
    \/ CheckQuestionTypes
    \/ SendGeneration

\* The forms posted.  The texts: none, blanks only, 49 and 50 characters, and
\* the two again between blanks.  The selections of question types: none, an
\* unknown type, known types.  The files: none, a PDF, a Word file under a
\* path, a name that is all extension, a text file.
Forms ==
    LET Texts ==
            {"", "   ", Chars(MIN_TEXT_LENGTH - 1), Chars(MIN_TEXT_LENGTH),
             "  " \o Chars(MIN_TEXT_LENGTH - 1) \o " \n",
             " " \o Chars(MIN_TEXT_LENGTH) \o " "}
        Selections ==
            {<<>>, <<"Essay Question">>, <<"Multiple Choice Question">>,
             <<"True/False Question", "Essay Question", "Multiple Choice Question">>}
        PageFields == {"", "abc", "0", "1", "3", " 5 ", "10", "11"}
        Uploads ==
            {None, Str("notes.pdf"), Str("../My Notes.DOCX"), Str(".pdf"), Str("notes.txt")}
    IN  {Form("file", "", q, f, s, e) :
            q \in Selections, f \in Uploads, s \in PageFields, e \in PageFields}
        \cup
        {Form("text", t, q, None, s, "") :
            t \in Texts, q \in Selections, s \in {"", "1", "11"}}

GenerateInit ==
    /\ USE_GEVENT_SLEEP = FALSE
    /\ Idle
    /\ telegram = Received(NoRequest)
    /\ parked = NewSession
    /\ generation \in {Called(form) : form \in Forms}
    /\ application = Applied(NoCall)

GenerateSpec == GenerateInit /\ [][GenerateNext]_vars

-----------------------------------------------------------------------------
(* Two generate requests in one process (threads of the server, or         *)
(* greenlets).  pc, out and generation belong to the request that runs;    *)
(* the other request is parked, and a context switch exchanges the two.    *)
(* The upload folder is one for both.                                      *)

SwitchRequest ==
    /\ parked' = [pc |-> pc, out |-> out, generation |-> generation]
    /\ pc' = parked.pc
    /\ out' = parked.out
    /\ generation' = parked.generation
    /\ UNCHANGED <<USE_GEVENT_SLEEP, now, start_time, seen, idle, last_heartbeat,
                   emitted, quiet, lastFetch, lastSignal, doneSent, polledIdless,
                   files, application, telegram>>

GenerateNextOfTwo == GenerateNext \/ SwitchRequest

\* The forms of the two requests: a PDF named notes.pdf, the same name under
\* a path, and a text of 50 characters.
TwoGenerateInit ==
    /\ USE_GEVENT_SLEEP = FALSE
    /\ Idle
    /\ telegram = Received(NoRequest)
    /\ LET FormsOfTwo ==
               {Form("file", "", <<"Multiple Choice Question">>, Str(name), "", "")
                   : name \in {"notes.pdf", "../notes.pdf"}}
               \cup {Form("text", Chars(MIN_TEXT_LENGTH), <<"Multiple Choice Question">>,
                          None, "", "")}
       IN  /\ generation \in {Called(form) : form \in FormsOfTwo}
           /\ parked \in {[pc |-> "request", out |-> NoEvent, generation |-> Called(form)]
                           : form \in FormsOfTwo}
    /\ application = Applied(NoCall)

TwoGenerates == TwoGenerateInit /\ [][GenerateNextOfTwo]_vars

-----------------------------------------------------------------------------
(* src/utils.py: the functions of the card and request formats, each       *)
(* applied once to an argument list drawn at the start.                    *)

\* The longest selection of question types drawn.
MaxSelected == 3

\* The answers a raw card can carry.
Answers ==
    {Bool(TRUE), Bool(FALSE), Str("true"), Str("TRUE"), Str(" false "), Str("False"),
     Str("42"), Str("Paris"), Str(""), Num("42"), Num("0"), None}

\* The calls made.  The question_type fields hold the known types and one
\* other, the difficulty field one of three.  The raw cards normalize_card is
\* applied to: with an id, every answer, no distractor, one or two, and a card
\* type that names true/false or not.
Calls ==
    LET TypeNames == DOMAIN QUESTION_TYPE_MAPPING \cup {"Essay Question"}
        Difficulties == {"Basic", "Intermediate", "Advanced"}
        Selected == UNION {[1..n -> TypeNames] : n \in 0..MaxSelected}
        CardsApplied ==
            {RawCard(Str("c1"), None, Str("Q?"), card_type, answer, distractors) :
                card_type \in {None, Str("Multiple Choice Question"),
                               Str("True/False Question")},
                answer \in Answers,
                distractors \in {<<>>, <<"True">>, <<"Rome", "Oslo">>}}
    IN  {[f |-> "build_question_types", selected_types |-> types, difficulty |-> d] :
            types \in Selected, d \in Difficulties}
        \cup {[f |-> "normalize_answer", answer |-> answer] : answer \in Answers}
        \cup {[f |-> "normalize_card", card_data |-> card_data] :
                 card_data \in CardsApplied}

\* The function returns.
Return(value) ==
    /\ application' = [application EXCEPT !.returned = TRUE, !.ret = value]
    /\ UNCHANGED <<USE_GEVENT_SLEEP, session, parked, generation, files, telegram>>

ApplyBuildQuestionTypes ==
    /\ ~application.returned
    /\ application.call.f = "build_question_types"
    /\ Return(build_question_types(application.call.selected_types,
                                   application.call.difficulty))

ApplyNormalizeAnswer ==
    /\ ~application.returned
    /\ application.call.f = "normalize_answer"
    /\ Return(normalize_answer(application.call.answer))

ApplyNormalizeCard ==
    /\ ~application.returned
    /\ application.call.f = "normalize_card"
    /\ \E normalized \in normalize_card(application.call.card_data) :
          Return(normalized)

ApplyNext ==
    \/ ApplyBuildQuestionTypes
    \/ ApplyNormalizeAnswer
    \/ ApplyNormalizeCard

ApplyInit ==
    /\ USE_GEVENT_SLEEP = FALSE
    /\ Idle
    /\ telegram = Received(NoRequest)
    /\ parked = NewSession
    /\ generation = Called(NoForm)
    /\ application \in {Applied(call) : call \in Calls}

ApplySpec == ApplyInit /\ [][ApplyNext]_vars

-----------------------------------------------------------------------------
(* src/app.py, send_to_telegram.  Each emoji of the source's texts is      *)
(* written as one ASCII character, so that lengths are those of Python.    *)

\* str(x)
str(x) == IF x.t = "NoneType" THEN "None" ELSE x.v

\* The question, behind the case details when there are some, at its full
\* length.
question_text_Whole(card) ==
    IF Truthy(card.case_details)
    THEN "# " \o str(card.case_details) \o "\n\n? " \o str(card.question)
    ELSE "? " \o str(card.question)

\* Lines 883-893: the question, behind the case details when there are some,
\* cut to the 300 characters of a poll question.
question_text(card) ==
    LET text == IF Truthy(card.case_details)
                THEN "# " \o str(card.case_details) \o "\n\n? " \o str(card.question)
                ELSE "? " \o str(card.question)
    IN  IF Len(text) > 300 THEN Prefix(text, 297) \o "..." ELSE text

\* Lines 904-913: the text message of an understanding question.
message(card) ==
    LET answer_text == IF Truthy(card.answer) THEN str(card.answer) ELSE "No answer provided"
        text == IF Truthy(card.explanation) /\ card.explanation # card.answer
                THEN question_text(card) \o "\n\n+ **Answer:** " \o answer_text
                        \o "\n\n! **Explanation:** " \o str(card.explanation)
                ELSE question_text(card) \o "\n\n+ **Answer:** " \o answer_text
    IN  IF Len(text) > 4096 THEN Prefix(text, 4090) \o "..." ELSE text

RECURSIVE valid_options(_)
\* Lines 930-935: the options stripped, without the empty ones and those over
\* 100 characters.
valid_options(options) ==
    IF options = <<>> THEN <<>>
    ELSE LET option_str == strip(str(Head(options))) IN
         IF option_str # "" /\ Len(option_str) <= 100
         THEN <<option_str>> \o valid_options(Tail(options))
         ELSE valid_options(Tail(options))

\* The index of the first option that is the answer as written, else 0.
correct_option_id_ExactOnly(options, answer) ==
    LET normalized_answer == strip(str(answer))
        exact == {i \in 1..Len(options) : options[i] = normalized_answer}
    IN  IF exact # {} THEN (CHOOSE i \in exact : \A j \in exact : i <= j) - 1 ELSE 0

\* Lines 942-975: the index (from 0) of the first valid option that is the
\* answer, else of the first that is the answer but for case, else of the
\* first that is the same true/false value, else 0.
correct_option_id(options, answer) ==
    LET normalized_answer == strip(str(answer))
        answer_lower == lower(normalized_answer)
        First(I) == IF I = {} THEN None ELSE PyInt((CHOOSE i \in I : \A j \in I : i <= j) - 1)
        exact == First({i \in 1..Len(options) : strip(options[i]) = normalized_answer})
        nocase == First({i \in 1..Len(options) :
                            lower(strip(options[i])) = answer_lower})
        truefalse == First({i \in 1..Len(options) :
                               /\ answer_lower \in {"true", "false"}
                               /\ lower(strip(options[i])) \in {"true", "false"}
                               /\ answer_lower = lower(strip(options[i]))})
    IN  IF exact # None THEN IntOf(exact)
        ELSE IF nocase # None THEN IntOf(nocase)
        ELSE IF truefalse # None THEN IntOf(truefalse)
        ELSE 0

\* Lines 877-992, one pass of the loop up to the call of the bot: the card is
\* skipped, or makes the pass raise, or gives a message or a poll to send.
Prepared(card) ==
    IF card.t # "dict"
    THEN [kind |-> "raise", card |-> card, error |-> NoAttribute(card, "get")]
    ELSE IF ~Truthy(card.question)
    THEN [kind |-> "skip", card |-> card]
    ELSE IF contains(lower(str(card.card_type)), "understand")
            \/ (card.options.t = "list" /\ Len(card.options.items) = 0)
    THEN [kind |-> "message", card |-> card, text |-> message(card)]
    ELSE IF card.options.t # "list"
    THEN [kind |-> "raise", card |-> card,
          error |-> "object of type '" \o card.options.t \o "' has no len()"]
    ELSE IF Len(card.options.items) < 2 \/ Len(valid_options(card.options.items)) < 2
    THEN [kind |-> "skip", card |-> card]
    ELSE [kind |-> "poll", card |-> card,
          question |-> question_text(card),
          options |-> valid_options(card.options.items),
          correct_option_id |-> correct_option_id(valid_options(card.options.items),
                                                  card.answer),
          explanation |-> IF Truthy(card.explanation)
                          THEN Str(Prefix(str(card.explanation), 200))
                          ELSE None]

\* The card of this pass is done with, one way or the other.
Counted(t, outcome) == [t EXCEPT !.outcomes = Append(@, outcome)]

\* The handlers of a failed send with the error recorded and the card not counted.
SendFailed_NotCounted(t, prepared, e) ==
    [Counted(t, "failed") EXCEPT
        !.errors = Append(@, "Question " \o ToString(t.sent_count + t.skipped_count + 1)
                                \o ": " \o Prefix(e, 50)),
        !.submitted = Append(@, prepared)]

\* Lines 918-921 and 996-999: the bot raised; the error is recorded, the card
\* counted as skipped.
SendFailed(t, prepared, e) ==
    [Counted(t, "failed") EXCEPT
        !.errors = Append(@, "Question " \o ToString(t.sent_count + t.skipped_count + 1)
                                \o ": " \o Prefix(e, 50)),
        !.skipped_count = @ + 1,
        !.submitted = Append(@, prepared)]

\* The handler of a raising pass that leaves the loop: the cards still to go
\* are dropped.
CardRaised_LeavesLoop(t, e) ==
    [Counted(t, "raised") EXCEPT
        !.skipped_count = @ + 1,
        !.errors = Append(@, "Question " \o ToString(t.sent_count + t.skipped_count + 1)
                                \o ": " \o Prefix(e, 50)),
        !.cards = <<>>]

\* Lines 1000-1004: the pass raised; the card is counted as skipped, the error
\* recorded, and the loop goes on.
CardRaised(t, e) ==
    [Counted(t, "raised") EXCEPT
        !.skipped_count = @ + 1,
        !.errors = Append(@, "Question " \o ToString(t.sent_count + t.skipped_count + 1)
                                \o ": " \o Prefix(e, 50))]

\* Lines 840-875: no bot, no JSON object, no cards, no user id or one that is
\* no number; the loop over a number raises at once.
SendToTelegram ==
    /\ pc = "request"
    /\ telegram.request # NoRequest
    /\ LET request == telegram.request
           data == request.data
           Refuse(status, error) ==
               /\ pc' = "responded"
               /\ out' = [type |-> "json", status |-> status,
                          body |-> [success |-> FALSE, error |-> error]]
               /\ UNCHANGED telegram
           chat == strip(str(data.user_id))
           digits == IF chat # "" /\ CharAt(chat, 1) \in {"-", "+"} THEN From(chat, 2) ELSE chat
       IN  IF ~request.bot
           THEN Refuse(503, "Telegram bot not available")
           ELSE IF data.t # "dict"
           THEN Refuse(500, NoAttribute(data, "get"))
           ELSE IF ~Truthy(data.cards)
           THEN Refuse(400, "No questions to send")
           ELSE IF ~Truthy(data.user_id)
           THEN Refuse(400, "User ID not provided")
           ELSE IF ~(data.user_id.t = "int"
                       \/ (data.user_id.t = "str" /\ digits # "" /\ isdigit(digits)))
           THEN Refuse(400, "Invalid user ID format")
           ELSE IF data.cards.t # "list"
           THEN Refuse(500, "'" \o data.cards.t \o "' object is not iterable")
           ELSE /\ pc' = "cards"
                /\ out' = NoEvent
                /\ telegram' = [telegram EXCEPT !.cards = data.cards.items]
    /\ UNCHANGED <<streaming, generation, files, application>>

\* Lines 877-1004: one pass of the loop, to the end of the card; the bot takes
\* what it is sent, or raises.
SendCard ==
    /\ pc = "cards"
    /\ telegram.cards # <<>>
    /\ LET t == [telegram EXCEPT !.cards = Tail(@)]
           prepared == Prepared(Head(telegram.cards))
           SendErrors ==
               {"A request to the Telegram API was unsuccessful. Error code: 403. Description: Forbidden: bot was blocked by the user",
                "Read timed out."}
       IN  CASE prepared.kind = "skip" ->
                  telegram' = [Counted(t, "skipped") EXCEPT !.skipped_count = @ + 1]
             [] prepared.kind = "raise" ->
                  telegram' = CardRaised(t, prepared.error)
             [] OTHER ->
                  \/ telegram' = [Counted(t, "sent") EXCEPT
                                     !.sent_count = @ + 1,
                                     !.submitted = Append(@, prepared)]
                  \/ \E e \in SendErrors : telegram' = SendFailed(t, prepared, e)
    /\ UNCHANGED <<pc, out, streaming, generation, files, application>>

\* Lines 1006-1016: the loop is over; the counts, and the first 5 errors when
\* there are some.
Report ==
    /\ pc = "cards"
    /\ telegram.cards = <<>>
    /\ pc' = "responded"
    /\ LET response_data ==
               [success |-> TRUE,
                message |-> "Sent " \o ToString(telegram.sent_count)
                               \o " questions to Telegram",
                sent |-> telegram.sent_count,
                skipped |-> telegram.skipped_count]
       IN  out' = [type |-> "json", status |-> 200,
                   body |-> IF telegram.errors # <<>>
                            THEN [k \in DOMAIN response_data \cup {"errors"} |->
                                     IF k = "errors"
                                     THEN SubSeq(telegram.errors, 1,
                                                 Min(5, Len(telegram.errors)))
                                     ELSE response_data[k]]
                            ELSE response_data]
    /\ UNCHANGED <<telegram, streaming, generation, files, application>>

TelegramNext == SendToTelegram \/ SendCard \/ Report

\* The requests: without a bot, without a JSON object, without cards, with a
\* user id that is missing or no number, with cards that are no list, and
\* the batches: every card alone, cards of every kind in a row, the cards
\* at the limits in a row, and cards that fail six times over.
TelegramInit ==
    /\ USE_GEVENT_SLEEP = FALSE
    /\ Idle
    /\ parked = NewSession
    /\ generation = Called(NoForm)
    /\ application = Applied(NoCall)
    /\ LET Card(question, case_details, card_type, answer, explanation, options) ==
               [t |-> "dict", question |-> question, case_details |-> case_details,
                card_type |-> card_type, answer |-> answer, explanation |-> explanation,
                options |-> options]
           mcq == Str("Multiple Choice Question")
           q == Str("Capital of France?")
           capitals == List(<<Str("Rome"), Str(" Paris "), Str("Oslo")>>)
           cards ==
             << Card(q, None, mcq, Str("Paris"), Str("It is Paris."), capitals),
                Card(q, None, mcq, Str(" oslo "), None, capitals),
                Card(q, None, mcq, Str("Bern"), Str(Chars(250)), capitals),
                Card(q, None, mcq, None, None, capitals),
                Card(Str("The sun is a star."), None, Str("True/False Question"),
                     Str("TRUE"), Str(""), List(<<Str("False"), Str("True")>>)),
                Card(Str("The sun is a star."), None, None,
                     Bool(TRUE), None, List(<<Str("false"), Str("true")>>)),
                Card(Str("2 + 2?"), None, mcq, Num("4"), None,
                     List(<<Num("3"), Num("4"), Str(""), Str(Chars(100))>>)),
                Card(q, None, mcq, Str(Chars(101)), None,
                     List(<<Str(Chars(101)), Str("Rome"), Str("Oslo")>>)),
                Card(q, None, mcq, Str("Paris"), None,
                     List(<<Str("Paris"), Str("  "), Str(Chars(101))>>)),
                Card(q, None, mcq, Str("Paris"), None, List(<<Str("Paris")>>)),
                Card(Str(Chars(400)), Str("A patient, 40."), mcq, Str("Paris"), None, capitals),
                Card(Str(Chars(298)), None, mcq, Str("Paris"), None, capitals),
                Card(q, None, None, Str("Paris"), Str(Chars(4100)), List(<<>>)),
                Card(q, None, Str("Understanding Question"), Str(""), Str("It is Paris."),
                     capitals),
                Card(Str(Chars(400)), None, Str("Understanding Question"), Str("Paris"),
                     Str("Paris"), None),
                Card(None, None, mcq, Str("Paris"), None, capitals),
                Card(Str(""), None, mcq, Str("Paris"), None, capitals),
                Card(q, None, mcq, Str("Paris"), None, None),
                Str("Capital of France?") >>
           batches ==
             {<<cards[i]>> : i \in 1..Len(cards)}
                \cup {<<cards[16], cards[19], cards[1], cards[10], cards[18], cards[2]>>,
                      <<cards[1], cards[13], cards[19], cards[1]>>,
                      <<cards[11], cards[3], cards[13], cards[8], cards[9]>>,
                      [i \in 1..6 |-> cards[1]],
                      [i \in 1..7 |-> IF i = 4 THEN cards[1] ELSE cards[19]]}
           Data(cards_, user_id) == [t |-> "dict", cards |-> cards_, user_id |-> user_id]
           requests ==
             {[bot |-> TRUE, data |-> Data(List(batch), Str("854578633"))] : batch \in batches}
                \cup {[bot |-> FALSE, data |-> Data(List(<<cards[1]>>), Str("854578633"))],
                      [bot |-> TRUE, data |-> None],
                      [bot |-> TRUE, data |-> Data(List(<<>>), Str("854578633"))],
                      [bot |-> TRUE, data |-> Data(None, Str("854578633"))],
                      [bot |-> TRUE, data |-> Data(Num("7"), Num("854578633"))],
                      [bot |-> TRUE, data |-> Data(List(<<cards[1]>>), None)],
                      [bot |-> TRUE, data |-> Data(List(<<cards[1]>>), Str("@quiz"))],
                      [bot |-> TRUE, data |-> Data(List(<<cards[1]>>), Str(" -1001234 "))]}
       IN  telegram \in {Received(request) : request \in requests}

TelegramSpec == TelegramInit /\ [][TelegramNext]_vars

-----------------------------------------------------------------------------
(* Properties.                                                             *)

\* The generator has ended, one way or the other.
Ended == pc \in {"finished", "closed"}

\* C1: within a session a card id is placed in at most one data event: a data
\* event holds no id twice and no id an earlier data event of the session held.
C1_NoIdEmittedTwice ==
    [][out'.type = "data" =>
          /\ CardIds(out'.cards) \cap emitted = {}
          /\ Cardinality(CardIds(out'.cards)) = Len(out'.cards)]_vars

\* The records without an id: every pair of falsy values under 'card_id' and 'id'.
FalsyValues == {None, Str(""), Num("0"), Bool(FALSE)}
IdlessRecords ==
    {RawCard(a, b, Str("q0"), None, Str("A"), <<"B">>) : a, b \in FalsyValues}

\* The questions of the deck's records that have no id.
IdlessQuestions ==
    {DeckRecords[i].question.v : i \in {j \in 1..Len(DeckRecords) :
                                        HasIdless(<<DeckRecords[j]>>)}}

\* C2: normalize_card returns None for every record without an id, and no card a
\* client is handed (in a data event or in a /poll_cards response) has a falsy id
\* or is built from such a record.
C2_IdlessNeverDelivered ==
    /\ \A r \in IdlessRecords : normalize_card(r) = {None}
    /\ \A i \in 1..Len(out.cards) :
          /\ Truthy(out.cards[i].card_id)
          /\ out.cards[i].question.v \notin IdlessQuestions

\* C2 happens: a snapshot holding a record without an id was fetched and cards
\* of it were delivered, by the stream and by /poll_cards.
C2_Witness ==
    /\ polledIdless
    /\ out.type \in {"data", "poll_response"}
    /\ Len(out.cards) >= 2

\* C3: done{max_idle} is emitted exactly when STREAM_MAX_IDLE consecutive poll
\* cycles produced no data event: idle is that count whenever it is tested, the
\* done event comes at exactly STREAM_MAX_IDLE, no poll starts at that count, and
\* a session that reached it can only emit the done event (or lose its client).
C3_MaxIdleExactly ==
    /\ [](pc \in {"top", "fetch", "y622", "y623", "y629", "y638", "y671",
                  "y709", "y713", "y714", "y723"} => idle = quiet)
    /\ []((pc \in {"y622", "y623", "y713", "y714"} \/ out = DoneData("max_idle"))
             => quiet = STREAM_MAX_IDLE)
    /\ [](pc \in {"top", "fetch"} => quiet < STREAM_MAX_IDLE)
    /\ [](quiet <= STREAM_MAX_IDLE)
    /\ [][quiet = STREAM_MAX_IDLE /\ pc \in {"y671", "y701", "y709"}
             => pc' \in {"y709", "y713", "closed"}]_vars
    /\ [][out'.type = "data" => quiet' = 0]_vars

\* C3 happens: a session that delivered cards went quiet and ended with max_idle.
C3_Witness ==
    /\ out = DoneData("max_idle")
    /\ emitted # {}
    /\ quiet = STREAM_MAX_IDLE

\* C4: an iteration that begins after more than MAX_STREAM_DURATION emits
\* done{max_duration} and stops: no poll starts after that point whatever idle
\* is and however recent the last data event, and every session ends.
C4_MaxDuration ==
    /\ [][pc = "top" /\ now - start_time > Sec(MAX_STREAM_DURATION)
             => pc' = "y609" /\ out' = DoneLine]_vars
    /\ [][pc = "y609" => \/ pc' = "y610" /\ out' = DoneData("max_duration")
                         \/ pc' = "closed"]_vars
    /\ [][pc = "y610" => Ended']_vars
    /\ [](pc = "fetch" => now - start_time <= Sec(MAX_STREAM_DURATION))
    /\ <>(Ended \/ pc = "responded")

\* C4 happens: the session is ended by max_duration right after a data event.
C4_Witness ==
    /\ out = DoneData("max_duration")
    /\ lastFetch = "data"
    /\ idle = 0

\* C5: the seen set holds at most the limit once an iteration is over.
C5_SeenBounded == Cardinality(seen) <= SeenLimit

\* C6: at most one done event, with one of the two reasons, and nothing after
\* it: once the reason line is out the generator ends without another event,
\* and an 'event: done' line is followed by nothing but its reason.
C6_DoneIsLast ==
    /\ [](doneSent <= 1)
    /\ [](out.type = "done" => out.reason \in {"max_idle", "max_duration"})
    /\ [][doneSent >= 1 => Ended' /\ out' = NoEvent]_vars
    /\ [][out = DoneLine => out'.type = "done" \/ pc' = "closed"]_vars

\* C6 happens: a session that emitted data and a heartbeat has ended after its done event.
C6_Witness ==
    /\ pc = "finished"
    /\ doneSent = 1
    /\ emitted # {}

\* C7: the generator ends only after a done event or because the client went
\* away: it is never over for a connected client without the done event.
C7_OnlyThreeEnds ==
    /\ [](pc = "finished" => doneSent = 1)
    /\ [][pc' = "finished" /\ pc # "finished"
             => out.type = "done" /\ out.reason \in {"max_idle", "max_duration"}]_vars
    /\ [][pc' = "closed" /\ pc # "closed" => pc \in YieldPoints]_vars

\* C7 happens: a session whose last cycle raised has ended with its done event.
C7_Witness ==
    /\ pc = "finished"
    /\ lastFetch = "raised"

\* C8: a disconnect can strike at every yield; it ends the session at once: no
\* event, no poll and no step follows, and the seen set is empty.
C8_DisconnectStops ==
    /\ [](pc \in YieldPoints => ENABLED Disconnect)
    /\ [][pc' = "closed" => out' = NoEvent /\ seen' = {} /\ now' = now]_vars
    /\ [](pc = "closed" => seen = {} /\ ~ENABLED Next)

\* C8 happens: the client went away during the error handling of a cycle, after
\* cards had been delivered.
C8_Witness ==
    /\ pc = "closed"
    /\ lastFetch = "raised"
    /\ emitted # {}

\* C9: a comment event (heartbeat or keepalive) is never written more than the
\* heartbeat interval after the event written before it (or the session's start).
C9_HeartbeatInTime ==
    [][out'.type \in {"heartbeat", "keepalive"}
          => now' - lastSignal <= Sec(HEARTBEAT_INTERVAL)]_vars

\* C10: a failed fetch adds exactly one to idle, leaves seen alone, hands the
\* client no error, and is followed by the sleep and the next iteration unless
\* idle has reached STREAM_MAX_IDLE.
C10_FailedFetchTransient ==
    /\ [][pc = "fetch" /\ lastFetch' = "failed" =>
             /\ idle' = idle + 1
             /\ seen' = seen
             /\ out'.type \in {"none", "heartbeat", "keepalive", "event_done"}
             /\ IF idle' >= STREAM_MAX_IDLE
                THEN pc' = "y622"
                ELSE pc' \in {"top", "y629", "y638"}]_vars
    /\ [][(pc \in {"y629", "y638"}) => pc' \in {"top", "y638", "closed"}]_vars
    /\ [][pc = "top" /\ ~(now - start_time > Sec(MAX_STREAM_DURATION))
             => pc' = "fetch"]_vars

\* C10 happens: after a failed fetch the session is polling again, seen intact.
C10_Witness ==
    /\ pc = "fetch"
    /\ lastFetch = "failed"
    /\ idle >= 1
    /\ seen # {}

\* Texts of exceptions: the one a record that is no dict raises, and texts
\* around and beyond the limit.
ExceptionTexts ==
    {NoAttribute(None, "get"), Chars(ERROR_MESSAGE_LIMIT - 1),
     Chars(ERROR_MESSAGE_LIMIT), Chars(ERROR_MESSAGE_LIMIT + 1),
     Chars(ERROR_MESSAGE_LIMIT + ERROR_MESSAGE_LIMIT)}

\* C11: an iteration that raises hands the client one error event whose message
\* is the first 100 characters of the exception's text at most; the iteration
\* counts as one idle cycle, and the session goes on to its next poll (through
\* a heartbeat, the sleep or a keepalive) and is not ended by the error, unless
\* idle has reached STREAM_MAX_IDLE: then the done event with max_idle follows.
C11_ErrorIsInline ==
    /\ [](\A e \in ExceptionTexts :
            /\ Len(ErrorMessage(e)) <= ERROR_MESSAGE_LIMIT
            /\ ErrorMessage(e) = SubSeq(e, 1, Len(ErrorMessage(e)))
            /\ Len(e) <= ERROR_MESSAGE_LIMIT => ErrorMessage(e) = e)
    /\ [][pc = "fetch" /\ lastFetch' = "raised" =>
             /\ pc' = "y701"
             /\ out'.type = "error"
             /\ out'.error = ErrorMessage(NoAttribute(None, "get"))
             /\ Len(out'.error) <= ERROR_MESSAGE_LIMIT
             /\ idle' = idle]_vars
    /\ [][out'.type = "error" => pc = "fetch" /\ lastFetch' = "raised"]_vars
    /\ [][pc = "y701" =>
             \/ pc' = "closed"
             \/ /\ idle' = idle + 1
                /\ out'.type # "error"
                /\ seen' = seen
                /\ IF idle' >= STREAM_MAX_IDLE
                   THEN pc' \in {"y709", "y713"}
                   ELSE pc' \in {"y709", "y723", "top"}]_vars
    /\ [][pc = "y709" =>
             \/ pc' = "closed"
             \/ /\ idle' = idle
                /\ IF idle >= STREAM_MAX_IDLE
                   THEN pc' = "y713"
                   ELSE pc' \in {"y723", "top"}]_vars
    /\ [][pc = "y723" => pc' \in {"top", "closed"}]_vars
    /\ [][pc = "y713" => \/ pc' = "y714" /\ out' = DoneData("max_idle")
                         \/ pc' = "closed"]_vars

\* C11 happens: after the error event of a raising iteration, in a session that
\* had delivered cards, the session is polling again with the cycle counted.
C11_Witness ==
    /\ pc = "fetch"
    /\ lastFetch = "raised"
    /\ idle >= 1
    /\ emitted # {}

\* The variables of the running session, as a record.
Running ==
    Frame(pc, now, start_time, seen, idle, last_heartbeat, out, emitted, quiet,
          lastFetch, lastSignal, doneSent, polledIdless)

\* C12: of two sessions open side by side, each one's seen set, idle counter,
\* start and heartbeat times (and all else it holds) are changed by its own
\* steps only: a step of the running session leaves the parked one as it is,
\* and a context switch hands both over untouched.  What a session has in seen
\* is what it emitted itself, so it is delivered a card whenever it has not
\* emitted it, whatever the other session emitted; its idle counter counts its
\* own quiet cycles.
C12_SessionsShareNothing ==
    /\ [][parked' # parked => parked' = Running /\ Running' = parked]_vars
    /\ [][parked' = parked /\ pc # "request" => start_time' = start_time]_vars
    /\ [](pc \notin {"request", "finished", "closed"} => seen = emitted)
    /\ [](parked.pc \notin {"request", "finished", "closed"}
            => parked.seen = parked.emitted)
    /\ []((pc = "fetch" /\ Str("c1") \notin emitted)
            => ENABLED (FetchOfTwo /\ out'.type = "data"
                                   /\ Str("c1") \in CardIds(out'.cards)))
    /\ [](pc \in {"top", "fetch"} => idle = quiet)
    /\ [](parked.pc \in {"top", "fetch"} => parked.idle = parked.quiet)

\* C12 happens: the running session has just been handed the card the parked
\* session, still open, was handed before.
C12_Witness ==
    /\ out.type = "data"
    /\ Str("c1") \in CardIds(out.cards)
    /\ Str("c1") \in parked.emitted
    /\ parked.pc \in {"top", "fetch"}
    /\ parked.idle >= 1


\* The effects of a generate call so far include this one.
InCalls(what) == \E i \in 1..Len(generation.calls) : generation.calls[i] = what

\* The selection of the form holds no known question type.
NoKnownType ==
    build_question_types(generation.form.question_type, generation.form.difficulty) = <<>>

\* C13: generate checks the selection of question types before anything else:
\* a request whose selection is empty or holds no known type is answered with
\* an error, and for it no file is written, no text extracted, nothing
\* uploaded and no generation requested.
C13_TypesAreTheFirstGate ==
    (generation.form # NoForm /\ NoKnownType) =>
        /\ generation.created = {}
        /\ generation.calls = <<>>
        /\ (pc = "responded" => out.type = "error_page")

\* The upload has reported a failure, at either step.
UploadReportedFailure == generation.upload # None /\ ~generation.upload.success
\* The upload has reported success: upload_pdf_to_s3 returned the dict of the
\* POST to storage.
UploadReportedSuccess ==
    /\ generation.upload # None
    /\ generation.upload.success
    /\ "s3_url" \in DOMAIN generation.upload

\* C14: when the upload fails, at the presigned URL or at the POST to storage,
\* generate ends with an error page and sends no generation request; a
\* generation request is sent only after an upload that reported success.
C14_NoGenerationWithoutUpload ==
    /\ UploadReportedFailure =>
          /\ pc = "responded"
          /\ out.type = "error_page"
          /\ Prefix(out.error, 29) = "Failed to upload file to S3: "
          /\ ~InCalls("generate")
    /\ (pc = "send" \/ InCalls("generate")) =>
          /\ UploadReportedSuccess
          /\ InCalls("upload_url")
          /\ InCalls("s3_post")

\* C14 happens: the POST to storage failed after the presigned URL was
\* obtained, and generate has answered.
C14_Witness ==
    /\ pc = "responded"
    /\ UploadReportedFailure
    /\ InCalls("s3_post")

\* C15: when generate answers, every temporary file the call created (the
\* saved copy, and in text mode the generated PDF) has been removed.
C15_NoTemporaryFileLeft ==
    pc = "responded" => generation.created \cap files = {}

\* The request is in text mode.
TextMode == generation.form # NoForm /\ generation.form.input_method = "text"
\* The answer of the length gate.
RejectedForLength ==
    /\ pc = "responded"
    /\ out.type = "error_page"
    /\ out.error = "Please enter at least 50 characters of text"

\* C16 as stated: in text mode a submitted text of 50 or more characters is
\* not rejected by the length gate.
C16_SubmittedLengthGate ==
    (TextMode /\ Len(generation.form.text_content) >= MIN_TEXT_LENGTH) =>
        ~RejectedForLength

\* C16, amended: in text mode the length gate measures the text with the
\* whitespace at its ends removed.  A text of fewer than 50 characters so
\* measured is rejected with an error before any file is created and before
\* any network call; a text of 50 or more is not rejected by the length gate
\* and goes on to the creation of the PDF, extraction, upload and generation.
C16_TrimmedLengthGate ==
    /\ [](TextMode /\ Len(strip(generation.form.text_content)) < MIN_TEXT_LENGTH =>
            /\ generation.created = {}
            /\ generation.calls = <<>>
            /\ files = {}
            /\ pc \in {"request", "responded"}
            /\ (pc = "responded" => out.type = "error_page"))
    /\ [](TextMode /\ Len(strip(generation.form.text_content)) >= MIN_TEXT_LENGTH =>
            ~RejectedForLength)
    /\ [][(pc = "request" /\ TextMode
             /\ Len(strip(generation.form.text_content)) >= MIN_TEXT_LENGTH)
          => pc' = "create_pdf"]_vars

\* C16 happens: a text of exactly 50 characters between blanks went through
\* extraction, upload and generation.
C16_Witness ==
    /\ TextMode
    /\ Len(generation.form.text_content) > MIN_TEXT_LENGTH
    /\ Len(strip(generation.form.text_content)) = MIN_TEXT_LENGTH
    /\ pc = "responded"
    /\ out.type = "redirect"
    /\ generation.calls = <<"extract", "upload_url", "s3_post", "generate">>

\* Every given bound is >= 1 and <= total and, when both are given, start <= end.
WithinPages(start_page, end_page, total_pages) ==
    /\ start_page # None =>
          IntOf(start_page) >= 1 /\ IntOf(start_page) <= IntOf(total_pages)
    /\ end_page # None =>
          IntOf(end_page) >= 1 /\ IntOf(end_page) <= IntOf(total_pages)
    /\ (start_page # None /\ end_page # None) => IntOf(start_page) <= IntOf(end_page)

\* C17: validate_page_range says valid exactly when every given bound is
\* between 1 and the page count and start is not after end, and gives an error
\* otherwise ((5, 3, 10): start after end; (11, None, 10): a message with 11
\* and 10; (1, 10, 10): valid); on an invalid range process_file_upload fails
\* and nothing is uploaded.
C17_PageRangeValidated ==
    /\ validate_page_range(PyInt(5), PyInt(3), PyInt(10))
          = [valid |-> FALSE,
             error |-> Str("Start page must be less than or equal to end page")]
    /\ LET result == validate_page_range(PyInt(11), None, PyInt(10)) IN
          /\ ~result.valid
          /\ contains(result.error.v, "11")
          /\ contains(result.error.v, "10")
    /\ validate_page_range(PyInt(1), PyInt(10), PyInt(10)) = [valid |-> TRUE, error |-> None]
    /\ [][(pc = "validate" /\ generation.page_range # <<None, None>>
             /\ generation'.total_pages # None)
          => LET result == validate_page_range(generation.page_range[1],
                                               generation.page_range[2],
                                               generation'.total_pages)
             IN  /\ result.valid <=> WithinPages(generation.page_range[1],
                                                 generation.page_range[2],
                                                 generation'.total_pages)
                 /\ result.valid => result.error = None /\ pc' = "extract"
                 /\ ~result.valid =>
                       /\ Truthy(result.error)
                       /\ pc' = "responded"
                       /\ out' = ErrorPage(result.error.v)
                       /\ generation'.upload = None
                       /\ ~InCalls("upload_url")' /\ ~InCalls("s3_post")'
                       /\ ~InCalls("generate")']_vars

\* C17 happens: pages 5 to 3 of a document of 10 pages were asked for, and the
\* request was answered with the error of the range.
C17_Witness ==
    /\ pc = "responded"
    /\ generation.page_range = <<PyInt(5), PyInt(3)>>
    /\ generation.total_pages = PyInt(10)
    /\ out = ErrorPage("Start page must be less than or equal to end page")


\* The function applied has returned.
Returned(f) == application.returned /\ application.call.f = f

\* C18: build_question_types returns, in the order of the selection, one entry
\* for each selected type that is known, with difficultyGroup "Basic" for
\* 'True/False Question' and the requested difficulty for the others; unknown
\* types give no entry.
C18_QuestionTypesBuilt ==
    Returned("build_question_types") =>
        LET types == application.call.selected_types
            difficulty == application.call.difficulty
            known == SelectSeq(types, LAMBDA t : t \in DOMAIN QUESTION_TYPE_MAPPING)
            ret == application.ret
        IN  /\ Len(ret) = Len(known)
            /\ \A i \in 1..Len(known) :
                  /\ ret[i].cardType = known[i]
                  /\ ret[i].difficultyGroup =
                        IF known[i] = "True/False Question" THEN "Basic" ELSE difficulty
                  /\ DOMAIN ret[i] = {"cardType", "difficultyGroup"}

\* C18 happens: true/false and multiple choice were selected at difficulty
\* Advanced, with an unknown type between them.
C18_Witness ==
    /\ Returned("build_question_types")
    /\ application.call.selected_types
          = <<"True/False Question", "Essay Question", "Multiple Choice Question">>
    /\ application.call.difficulty = "Advanced"
    /\ application.ret
          = <<[cardType |-> "True/False Question", difficultyGroup |-> "Basic"],
              [cardType |-> "Multiple Choice Question", difficultyGroup |-> "Advanced"]>>

\* C19: normalize_answer gives 'True'/'False' for the booleans and for every
\* string that is 'true' or 'false' once trimmed and lowered, and for every
\* other value its str(), or '' when the value is falsy.
C19_AnswerNormalized ==
    Returned("normalize_answer") =>
        LET answer == application.call.answer
            ret == application.ret
        IN  /\ answer = Bool(TRUE) => ret = "True"
            /\ answer = Bool(FALSE) => ret = "False"
            /\ answer.t = "str" =>
                  LET answer_lower == lower(strip(answer.v)) IN
                  /\ answer_lower = "true" => ret = "True"
                  /\ answer_lower = "false" => ret = "False"
                  /\ answer_lower \notin {"true", "false"} => ret = answer.v
            /\ answer.t \notin {"bool", "str"} =>
                  ret = IF Truthy(answer) THEN answer.v ELSE ""
            /\ answer = Str("42") => ret = "42"
            /\ answer = Str(" false ") => ret = "False"
            /\ ret \in STRING

\* C19 happens: ' false ' was normalized to 'False'.
C19_Witness ==
    /\ Returned("normalize_answer")
    /\ application.call.answer = Str(" false ")
    /\ application.ret = "False"

\* C20: the options of a normalized card with distractors are the distractors
\* and the normalized answer in some order, so the answer is one of the
\* options; without distractors they are ['True', 'False'] when the card type
\* mentions true/false or the answer is a true/false string, and empty otherwise.
C20_AnswerAmongOptions ==
    Returned("normalize_card") =>
        LET card_data == application.call.card_data
            distractors == card_data.distractor_answers_for_multiple_choice_question
            card == application.ret
        IN  IF distractors # <<>>
            THEN /\ card.options \in Shuffles(Append(distractors, card.answer.v))
                 /\ \E i \in 1..Len(card.options) : card.options[i] = card.answer.v
            ELSE card.options =
                    IF \/ contains(lower(PyOr(card_data.card_type, Str("")).v), "true")
                       \/ contains(lower(PyOr(card_data.card_type, Str("")).v), "false")
                       \/ (card_data.answer.t = "str"
                             /\ lower(strip(card_data.answer.v)) \in {"true", "false"})
                    THEN <<"True", "False">>
                    ELSE <<>>


\* C23: when the seen set outgrows its limit it is cut back to exactly the
\* limit, the ids added last being the ones kept: no id added in the current
\* iteration is dropped while an id of an earlier iteration is kept.
C23_KeepsMostRecent ==
    [][(pc = "fetch" /\ out'.type = "data") =>
          LET added == CardIds(out'.cards)
              grown == seen \cup added
          IN  IF Cardinality(grown) > SeenLimit
              THEN /\ Cardinality(seen') = SeenLimit
                   /\ seen' \subseteq grown
                   /\ (added \ seen' # {} => seen' \cap seen = {})
              ELSE seen' = grown]_vars

\* The poll of this step got an answer from the backend (fetch_cards_from_api
\* returned success).
Polled == pc = "fetch" /\ lastFetch' # "failed"

Fresh(cards, seen_) ==
    Pick(cards,
         {i \in 1..Len(cards) :
             /\ Truthy(card_id_of(cards[i]))
             /\ card_id_of(cards[i]) \notin seen_
             /\ \A j \in 1..(i - 1) : card_id_of(cards[j]) # card_id_of(cards[i])},
         1)

\* A snapshot of JSON objects only.
AllDicts(cards) == \A i \in 1..Len(cards) : cards[i].t = "dict"

C27_SeenWasDelivered == seen \subseteq emitted

\* C29: once the backend keeps returning the same snapshot, the stream emits
\* no data event after the first poll of the snapshot, whatever the size of
\* the deck: every later poll cycle is a quiet one, up to done{max_idle}.
C29_UnchangedDeckGoesQuiet ==
    /\ [][out'.type = "data" => emitted = {}]_vars
    /\ [][(pc = "fetch" /\ emitted # {}) => quiet' = quiet + 1]_vars


\* C26: every payload for the generation endpoint has pdfStartingPage the
\* start page asked for, or 1 when none was, pdfEndingPage the end page asked
\* for, or the page count when none was, pdf_num_pages the page count, and
\* 1 <= pdfStartingPage <= pdfEndingPage <= pdf_num_pages.
C26_PayloadPages ==
    generation.json_data # None =>
        LET json_data == generation.json_data
            start_page == generation.page_range[1]
            end_page == generation.page_range[2]
        IN  /\ json_data.pdfStartingPage = IF start_page # None THEN start_page ELSE PyInt(1)
            /\ json_data.pdfEndingPage =
                  IF end_page # None THEN end_page ELSE generation.total_pages
            /\ json_data.pdf_num_pages = generation.total_pages
            /\ 1 <= IntOf(json_data.pdfStartingPage)
            /\ IntOf(json_data.pdfStartingPage) <= IntOf(json_data.pdfEndingPage)
            /\ IntOf(json_data.pdfEndingPage) <= IntOf(json_data.pdf_num_pages)

\* C26 happens: a payload went out for pages 3 to the end of a document of 10.
C26_Witness ==
    /\ InCalls("generate")
    /\ generation.page_range = <<PyInt(3), None>>
    /\ generation.json_data.pdfStartingPage = PyInt(3)
    /\ generation.json_data.pdfEndingPage = PyInt(10)
    /\ generation.json_data.pdf_num_pages = PyInt(10)


\* A request has saved its file and has not yet finished extracting and
\* uploading it.
Working(request) ==
    request.pc \in {"page_count", "validate", "extract", "upload_url", "s3_post"}

\* C28: two generate requests served side by side leave each other's
\* temporary files alone: from the moment a request has saved its file to the
\* moment it has extracted and uploaded it, the file is there, and the other
\* request neither writes to its path nor removes it.
C28_TemporaryFilesApart ==
    /\ [](\A request \in {[pc |-> pc, generation |-> generation],
                          [pc |-> parked.pc, generation |-> parked.generation]} :
             Working(request) => request.generation.file_path.v \in files)
    /\ [][(pc = "save" /\ Working(parked))
            => generation.file_path # parked.generation.file_path]_vars

\* The cards of the request being served.
Batch == telegram.request.data.cards.items

\* C21: a card whose processing or send fails does not end the batch: the
\* pass ends with the card counted as skipped and one more error recorded,
\* the loop goes on with the next card in order, and the response is a
\* success with the first 5 errors at most, and without errors when there
\* were none.
C21_FailureDoesNotAbort ==
    /\ [](pc = "cards" => /\ Len(telegram.outcomes) + Len(telegram.cards) = Len(Batch)
                          /\ telegram.cards = SubSeq(Batch, Len(telegram.outcomes) + 1,
                                                     Len(Batch)))
    /\ [][(pc = "cards" /\ telegram.cards # <<>>) =>
            /\ pc' = "cards"
            /\ telegram'.cards = Tail(telegram.cards)
            /\ Len(telegram'.outcomes) = Len(telegram.outcomes) + 1
            /\ (telegram'.outcomes[Len(telegram'.outcomes)] \in {"failed", "raised"} =>
                  /\ telegram'.skipped_count = telegram.skipped_count + 1
                  /\ telegram'.sent_count = telegram.sent_count
                  /\ Len(telegram'.errors) = Len(telegram.errors) + 1
                  /\ Prefix(telegram'.errors[Len(telegram'.errors)], 11)
                        = "Question " \o ToString(Len(telegram'.outcomes)) \o ":")]_vars
    /\ [][(pc = "cards" /\ pc' = "responded") =>
            /\ Len(telegram.outcomes) = Len(Batch)
            /\ out'.status = 200
            /\ out'.body.success
            /\ IF telegram.errors = <<>>
               THEN "errors" \notin DOMAIN out'.body
               ELSE /\ Len(out'.body.errors) <= 5
                    /\ out'.body.errors
                          = SubSeq(telegram.errors, 1, Len(out'.body.errors))
                    /\ Len(out'.body.errors) < 5
                          => out'.body.errors = telegram.errors]_vars

\* A batch answered after more than 5 errors, with a card sent after a failed
\* one.
C21_Witness ==
    /\ pc = "responded"
    /\ out.status = 200
    /\ Len(telegram.errors) > 5
    /\ Len(out.body.errors) = 5
    /\ \E i, j \in 1..Len(telegram.outcomes) :
          /\ i < j
          /\ telegram.outcomes[i] \in {"failed", "raised"}
          /\ telegram.outcomes[j] = "sent"

\* C22: the correct_option_id of a poll is an index of the options sent: of
\* the first one equal to the trimmed answer, else of the first one equal to
\* it but for case, else of the first one that is the same true/false value,
\* else 0.
C22_CorrectOption ==
    \A k \in 1..Len(telegram.submitted) :
        LET poll == telegram.submitted[k] IN
        poll.kind = "poll" =>
            LET answer == strip(str(poll.card.answer))
                at == poll.correct_option_id + 1
                Exact(i) == poll.options[i] = answer
                NoCase(i) == lower(poll.options[i]) = lower(answer)
                TrueFalse(i) == /\ lower(answer) \in {"true", "false"}
                                /\ lower(poll.options[i]) = lower(answer)
                FirstOf(Is(_)) == Is(at) /\ \A j \in 1..(at - 1) : ~Is(j)
                Among(Is(_)) == \E i \in 1..Len(poll.options) : Is(i)
            IN  /\ at \in 1..Len(poll.options)
                /\ IF Among(Exact) THEN FirstOf(Exact)
                   ELSE IF Among(NoCase) THEN FirstOf(NoCase)
                   ELSE IF Among(TrueFalse) THEN FirstOf(TrueFalse)
                   ELSE at = 1

\* Polls sent whose correct option is not the first: one found as written,
\* one found but for case.
C22_Witness ==
    /\ \E k \in 1..Len(telegram.submitted) :
          LET poll == telegram.submitted[k] IN
          /\ poll.kind = "poll"
          /\ poll.correct_option_id > 0
          /\ poll.options[poll.correct_option_id + 1] = strip(str(poll.card.answer))
          /\ "sent" \in {telegram.outcomes[i] : i \in 1..Len(telegram.outcomes)}
    /\ \E k \in 1..Len(telegram.submitted) :
          LET poll == telegram.submitted[k] IN
          /\ poll.kind = "poll"
          /\ poll.correct_option_id > 0
          /\ poll.options[poll.correct_option_id + 1] # strip(str(poll.card.answer))

\* The card is an open-ended one by lines 896-902: sent as a message.
OpenEnded(card) ==
    \/ contains(lower(str(card.card_type)), "understand")
    \/ (card.options.t = "list" /\ card.options.items = <<>>)

\* C25: what is handed to the bot is within the limits: a poll's question
\* has 300 characters at most, its options are 2 at least, none empty, none
\* over 100 characters, its explanation has 200 at most; a message has 4096
\* at most; and a choice card without 2 such options is skipped, with
\* nothing handed to the bot.
C25_WithinLimits ==
    /\ [](\A k \in 1..Len(telegram.submitted) :
            LET sent == telegram.submitted[k] IN
            IF sent.kind = "poll"
            THEN /\ Len(sent.question) <= 300
                 /\ Len(sent.options) >= 2
                 /\ \A i \in 1..Len(sent.options) :
                       sent.options[i] # "" /\ Len(sent.options[i]) <= 100
                 /\ sent.explanation # None => Len(sent.explanation.v) <= 200
            ELSE /\ sent.kind = "message"
                 /\ Len(sent.text) <= 4096)
    /\ [][(pc = "cards" /\ telegram.cards # <<>>) =>
            LET card == Head(telegram.cards)
                fit == IF card.t = "dict" /\ card.options.t = "list"
                       THEN {i \in 1..Len(card.options.items) :
                                LET option == strip(str(card.options.items[i]))
                                IN  option # "" /\ Len(option) <= 100}
                       ELSE {}
            IN  (card.t = "dict" /\ card.options.t = "list" /\ Truthy(card.question)
                   /\ ~OpenEnded(card) /\ Cardinality(fit) < 2)
                => /\ telegram'.submitted = telegram.submitted
                   /\ telegram'.outcomes = Append(telegram.outcomes, "skipped")]_vars

\* A batch in which a question was cut to 300 characters, an explanation to
\* 200, a message to 4093, an option left out of a poll, and a choice card
\* skipped for want of options.
C25_Witness ==
    LET S == {telegram.submitted[k] : k \in 1..Len(telegram.submitted)} IN
    /\ \E sent \in S : sent.kind = "poll" /\ Len(sent.question) = 300
                         /\ Len(str(sent.card.question)) > 300
    /\ \E sent \in S : sent.kind = "poll" /\ sent.explanation # None
                         /\ Len(sent.explanation.v) = 200
                         /\ Len(str(sent.card.explanation)) > 200
    /\ \E sent \in S : sent.kind = "message" /\ Len(sent.text) = 4093
    /\ \E sent \in S : sent.kind = "poll"
                         /\ Len(sent.options) < Len(sent.card.options.items)
    /\ Len(telegram.outcomes) = 5
    /\ telegram.outcomes[5] = "skipped"
    /\ Truthy(Batch[5].question)
    /\ Len(Batch[5].options.items) = 3

\* C30: a success response counts every card of the request once: sent and
\* skipped add up to the number of cards, and every pass of the loop adds 1
\* to one of the two.
C30_EveryCardCounted ==
    /\ []((pc = "responded" /\ out.status = 200) =>
            /\ out.body.sent + out.body.skipped = Len(Batch)
            /\ out.body.sent = Cardinality({i \in 1..Len(telegram.outcomes) :
                                               telegram.outcomes[i] = "sent"}))
    /\ [][(pc = "cards" /\ telegram.cards # <<>>) =>
            \/ /\ telegram'.sent_count = telegram.sent_count + 1
               /\ telegram'.skipped_count = telegram.skipped_count
            \/ /\ telegram'.sent_count = telegram.sent_count
               /\ telegram'.skipped_count = telegram.skipped_count + 1]_vars

\* A success response for a batch with a card skipped, a card that raised, a
\* card the bot refused and a card sent.
C30_Witness ==
    /\ pc = "responded"
    /\ out.status = 200
    /\ {"skipped", "raised", "failed", "sent"}
          \subseteq {telegram.outcomes[i] : i \in 1..Len(telegram.outcomes)}
    /\ out.body.sent + out.body.skipped = Len(Batch)

====
